---------------------------- MODULE Spec2Model ----------------------------
(***************************************************************************)
(* A model of the card / range / bet-size notation engine of the solver    *)
(* crate (src/api/src/solver/cards.rs, range.rs, bet_sizing.rs) and of the *)
(* mock data table (src/api/src/mock_data.rs).                             *)
(*                                                                         *)
(* Every operation of the crate is a pure function of its arguments.  A    *)
(* behaviour of the model is one call: Init draws the operation and its    *)
(* argument from bounded sets, the operation's action applies the function *)
(* and stores what it returned.  Range::filter_blocked is a method of the  *)
(* Range that Range::parse returned: its call follows a call of parse.     *)
(*                                                                         *)
(* Conventions.  A Rust `char` is a one-character TLA+ string, except the  *)
(* two-byte character U+00E9, which is the string EAcute; a Rust string is *)
(* a sequence of chars.  Vec and slice indices are 0-based as in the       *)
(* source (At, Slice).  Option is <<>> / <<v>>.  A Result is a record with *)
(* tag "Ok" or "Err"; a call that panics returns the record Panic.  An f64 *)
(* is a record [class, v] with v in units of 1/Scale.                      *)
(***************************************************************************)
EXTENDS Integers, Sequences, FiniteSets, TLC

VARIABLES op, arg, ret, pc

vars == <<op, arg, ret, pc>>

-----------------------------------------------------------------------------
(* Rust's Option, Result and panic.                                        *)

None == <<>>

Some(v) == <<v>>

IsSome(o) == Len(o) = 1

Unwrap(o) == o[1]

Ok(v) == [tag |-> "Ok", val |-> v]

Err(kind, what) == [tag |-> "Err", msg |-> kind, at |-> what]

Panic == [tag |-> "Panic"]

\* the value of a call that returns where another call of it panics
Returned(v) == [tag |-> "Return", val |-> v]

IsOk(r) == r.tag = "Ok"

IsErr(r) == r.tag = "Err"

-----------------------------------------------------------------------------
(* Strings: sequences of chars, 0-based.                                   *)

At(s, i) == s[i + 1]

\* s[from..to] of the source: the elements from, from+1, ..., to-1
Slice(s, from, to) == SubSeq(s, from + 1, to)

EAcute == "U+00E9"

\* the number of bytes of the UTF-8 encoding of a char
len_utf8(c) == IF c = EAcute THEN 2 ELSE 1

RECURSIVE str_len(_)
\* str::len: the length of a string in bytes
str_len(s) == IF s = <<>> THEN 0 ELSE len_utf8(Head(s)) + str_len(Tail(s))

\* char::is_whitespace, on the chars of the model
is_whitespace(c) == c \in {" ", "\t"}

RECURSIVE trim_start(_)
trim_start(s) ==
  IF s # <<>> /\ is_whitespace(Head(s)) THEN trim_start(Tail(s)) ELSE s

RECURSIVE trim_end(_)
trim_end(s) ==
  IF s # <<>> /\ is_whitespace(s[Len(s)])
  THEN trim_end(SubSeq(s, 1, Len(s) - 1))
  ELSE s

\* str::trim
trim(s) == trim_end(trim_start(s))

\* str::contains(char)
contains(s, c) == \E i \in 1..Len(s) : s[i] = c

\* str::find(char): the 0-based position of the first occurrence
find(s, c) ==
  IF contains(s, c)
  THEN Some((CHOOSE i \in 1..Len(s) :
               s[i] = c /\ \A k \in 1..(i - 1) : s[k] # c) - 1)
  ELSE None

\* str::ends_with(char)
ends_with(s, c) == s # <<>> /\ s[Len(s)] = c

RECURSIVE split(_, _)
\* str::split(char): the pieces between the separators, empty pieces kept
split(s, c) ==
  LET p == find(s, c)
  IN  IF IsSome(p)
      THEN <<Slice(s, 0, Unwrap(p))>>
             \o split(Slice(s, Unwrap(p) + 1, Len(s)), c)
      ELSE <<s>>

RECURSIVE split_whitespace(_)
\* str::split_whitespace: the maximal runs of non-whitespace chars
split_whitespace(s) ==
  LET t == trim_start(s)
  IN  IF t = <<>>
      THEN <<>>
      ELSE LET stop == IF \E i \in 1..Len(t) : is_whitespace(t[i])
                       THEN CHOOSE i \in 1..Len(t) :
                              /\ is_whitespace(t[i])
                              /\ \A k \in 1..(i - 1) : ~is_whitespace(t[k])
                       ELSE Len(t) + 1
           IN  <<SubSeq(t, 1, stop - 1)>>
                 \o split_whitespace(SubSeq(t, stop, Len(t)))

UpperChars ==
  <<"A", "B", "C", "D", "E", "F", "G", "H", "I", "J", "K", "L", "M",
    "N", "O", "P", "Q", "R", "S", "T", "U", "V", "W", "X", "Y", "Z">>

LowerChars ==
  <<"a", "b", "c", "d", "e", "f", "g", "h", "i", "j", "k", "l", "m",
    "n", "o", "p", "q", "r", "s", "t", "u", "v", "w", "x", "y", "z">>

\* char::to_ascii_lowercase
to_ascii_lowercase(c) ==
  IF \E i \in 1..Len(UpperChars) : UpperChars[i] = c
  THEN LowerChars[CHOOSE i \in 1..Len(UpperChars) : UpperChars[i] = c]
  ELSE c

\* str::eq_ignore_ascii_case
eq_ignore_ascii_case(s, t) ==
  /\ Len(s) = Len(t)
  /\ \A i \in 1..Len(s) : to_ascii_lowercase(s[i]) = to_ascii_lowercase(t[i])

RECURSIVE Concat(_)
\* the concatenation of a sequence of strings
Concat(ss) == IF ss = <<>> THEN <<>> ELSE Head(ss) \o Concat(Tail(ss))

RECURSIVE Join(_, _)
\* the strings of ss with sep between neighbours
Join(ss, sep) ==
  IF Len(ss) <= 1 THEN Concat(ss) ELSE Head(ss) \o sep \o Join(Tail(ss), sep)

Rev(s) == [i \in 1..Len(s) |-> s[Len(s) + 1 - i]]

-----------------------------------------------------------------------------
(* cards.rs: Rank, Suit, Card, Combo.                                      *)

NumRanks == 13

NumSuits == 4

NumCards == 52

U16 == 65536

\* Rank::all(): the ranks Two = 0 .. Ace = 12, in ascending order
Rank_all == [i \in 1..NumRanks |-> i - 1]

\* Suit::all(): Clubs = 0, Diamonds = 1, Hearts = 2, Spades = 3
Suit_all == [i \in 1..NumSuits |-> i - 1]

Ace == 12

Rank_to_char(r) ==
  CASE r = 0 -> "2" [] r = 1 -> "3" [] r = 2 -> "4" [] r = 3 -> "5"
    [] r = 4 -> "6" [] r = 5 -> "7" [] r = 6 -> "8" [] r = 7 -> "9"
    [] r = 8 -> "T" [] r = 9 -> "J" [] r = 10 -> "Q" [] r = 11 -> "K"
    [] r = 12 -> "A"

Rank_from_char(c) ==
  CASE c = "2" -> Some(0) [] c = "3" -> Some(1) [] c = "4" -> Some(2)
    [] c = "5" -> Some(3) [] c = "6" -> Some(4) [] c = "7" -> Some(5)
    [] c = "8" -> Some(6) [] c = "9" -> Some(7)
    [] c \in {"T", "t"} -> Some(8)
    [] c \in {"J", "j"} -> Some(9)
    [] c \in {"Q", "q"} -> Some(10)
    [] c \in {"K", "k"} -> Some(11)
    [] c \in {"A", "a"} -> Some(12)
    [] OTHER -> None

Suit_to_char(s) ==
  CASE s = 0 -> "c" [] s = 1 -> "d" [] s = 2 -> "h" [] s = 3 -> "s"

Suit_from_char(c) ==
  CASE c \in {"c", "C"} -> Some(0)
    [] c \in {"d", "D"} -> Some(1)
    [] c \in {"h", "H"} -> Some(2)
    [] c \in {"s", "S"} -> Some(3)
    [] OTHER -> None

\* Card::new: the u8 rank * 4 + suit
Card_new(rank, suit) == rank * 4 + suit

\* Card::rank
Card_rank(c) == c \div 4

\* Card::suit
Card_suit(c) == c % 4

\* Card::value
Card_value(c) == c

\* Combo::new
Combo_new(card1, card2, id) == [card1 |-> card1, card2 |-> card2, id |-> id]

\* Card_from_str refusing only strings of fewer than two chars
Card_from_str_two_or_more(s) ==
  IF Len(s) < 2
  THEN Err("Invalid card string", s)
  ELSE LET rank == Rank_from_char(At(s, 0))
           suit == Suit_from_char(At(s, 1))
       IN  IF ~IsSome(rank) THEN Err("Invalid rank", <<At(s, 0)>>)
           ELSE IF ~IsSome(suit) THEN Err("Invalid suit", <<At(s, 1)>>)
           ELSE Ok(Card_new(Unwrap(rank), Unwrap(suit)))

\* <Card as FromStr>::from_str
Card_from_str(s) ==
  LET chars == s
  IN  IF Len(chars) # 2
      THEN Err("Invalid card string", s)
      ELSE LET rank == Rank_from_char(At(chars, 0))
               suit == Suit_from_char(At(chars, 1))
           IN  IF ~IsSome(rank) THEN Err("Invalid rank", <<At(chars, 0)>>)
               ELSE IF ~IsSome(suit) THEN Err("Invalid suit", <<At(chars, 1)>>)
               ELSE Ok(Card_new(Unwrap(rank), Unwrap(suit)))

U8 == 256

\* from_value accepting the value 52 as well: value <= 52
Card_from_value_inclusive(value) == IF value <= NumCards THEN Some(value) ELSE None

\* Card::from_value
Card_from_value(value) == IF value < NumCards THEN Some(value) ELSE None

\* Card_to_string writing the suit before the rank
Card_to_string_suit_first(c) ==
  <<Suit_to_char(Card_suit(c)), Rank_to_char(Card_rank(c))>>

\* <Card as Display>::fmt: the rank char followed by the suit char
Card_to_string(c) == <<Rank_to_char(Card_rank(c)), Suit_to_char(Card_suit(c))>>

\* is_blocked_by looking at the first card of the combo only
is_blocked_by_card1(combo, cards) ==
  \E i \in 1..Len(cards) : cards[i] = combo.card1

\* Combo::is_blocked_by
is_blocked_by(combo, cards) ==
  \/ \E i \in 1..Len(cards) : cards[i] = combo.card1
  \/ \E i \in 1..Len(cards) : cards[i] = combo.card2

\* deck_cards with the suits of a rank left in ascending order
deck_cards_suits_ascending ==
  LET ranks == Rev(Rank_all)
      suits == Suit_all
  IN  [p \in 1..(Len(ranks) * Len(suits)) |->
         Card_new(ranks[((p - 1) \div Len(suits)) + 1],
                  suits[((p - 1) % Len(suits)) + 1])]

\* the deck of generate_all_combos: highest rank first, within a rank the
\* highest suit first
deck_cards ==
  LET ranks == Rev(Rank_all)
      suits == Rev(Suit_all)
  IN  [p \in 1..(Len(ranks) * Len(suits)) |->
         Card_new(ranks[((p - 1) \div Len(suits)) + 1],
                  suits[((p - 1) % Len(suits)) + 1])]

\* first_j with the inner loop starting at i itself
first_j_from_i(i) == i

\* the first inner index of the pair loop of generate_all_combos
first_j(i) == i + 1

RECURSIVE combos_inner(_, _, _, _)
\* for j in (i + 1)..52: push Combo::new(all_cards[i], all_cards[j], id); id += 1
\* (the combos pushed from j on, the first of them with the given id)
combos_inner(all_cards, i, j, id) ==
  IF j >= NumCards
  THEN <<>>
  ELSE <<Combo_new(At(all_cards, i), At(all_cards, j), id)>>
         \o combos_inner(all_cards, i, j + 1, (id + 1) % U16)

RECURSIVE combos_outer(_, _, _)
\* for i in 0..52 (the combos pushed from i on; id has grown by one for each
\* combo pushed before)
combos_outer(all_cards, i, id) ==
  IF i >= NumCards
  THEN <<>>
  ELSE LET pushed == combos_inner(all_cards, i, first_j(i), id)
       IN  pushed \o combos_outer(all_cards, i + 1, (id + Len(pushed)) % U16)

\* generate_all_combos
generate_all_combos == combos_outer(deck_cards, 0, 0)

-----------------------------------------------------------------------------
(* f64 and <f64 as FromStr>::from_str, on decimal literals without an      *)
(* exponent and on "nan" / "inf" / "infinity".  A finite value is kept in  *)
(* units of 1/Scale; fraction digits beyond FracDigits are dropped.        *)

FracDigits == 3

RECURSIVE Pow10(_)
Pow10(n) == IF n = 0 THEN 1 ELSE 10 * Pow10(n - 1)

Scale == Pow10(FracDigits)

Finite(v) == [class |-> "finite", v |-> v]

NaN == [class |-> "nan", v |-> 0]

Inf(sign) == [class |-> "inf", v |-> sign]

Digits == <<"0", "1", "2", "3", "4", "5", "6", "7", "8", "9">>

is_digit(c) == \E i \in 1..Len(Digits) : Digits[i] = c

digit_val(c) == (CHOOSE i \in 1..Len(Digits) : Digits[i] = c) - 1

RECURSIVE digits_val(_)
\* the number a string of decimal digits denotes
digits_val(s) ==
  IF s = <<>> THEN 0
  ELSE digits_val(SubSeq(s, 1, Len(s) - 1)) * 10 + digit_val(s[Len(s)])

\* the fraction digits of a literal, in units of 1/Scale
frac_val(s) ==
  LET kept == SubSeq(s, 1, IF Len(s) < FracDigits THEN Len(s) ELSE FracDigits)
  IN  digits_val(kept) * Pow10(FracDigits - Len(kept))

parse_f64(s) ==
  LET signed == s # <<>> /\ Head(s) \in {"+", "-"}
      sign   == IF s # <<>> /\ Head(s) = "-" THEN -1 ELSE 1
      body   == IF signed THEN Tail(s) ELSE s
      dot    == find(body, ".")
      int    == IF IsSome(dot) THEN Slice(body, 0, Unwrap(dot)) ELSE body
      frac   == IF IsSome(dot)
                THEN Slice(body, Unwrap(dot) + 1, Len(body))
                ELSE <<>>
  IN  IF eq_ignore_ascii_case(body, <<"n", "a", "n">>) THEN Ok(NaN)
      ELSE IF \/ eq_ignore_ascii_case(body, <<"i", "n", "f">>)
              \/ eq_ignore_ascii_case(body,
                   <<"i", "n", "f", "i", "n", "i", "t", "y">>)
      THEN Ok(Inf(sign))
      ELSE IF /\ Len(int) + Len(frac) > 0
              /\ \A i \in 1..Len(int) : is_digit(int[i])
              /\ \A i \in 1..Len(frac) : is_digit(frac[i])
      THEN Ok(Finite(sign * (digits_val(int) * Scale + frac_val(frac))))
      ELSE Err("Invalid float", s)

\* in_unit_interval without the upper bound: x >= 0.0
in_unit_interval_unbounded(x) ==
  (x.class = "finite" /\ 0 <= x.v) \/ (x.class = "inf" /\ x.v > 0)

\* in_unit_interval with the upper bound excluded: (0.0..1.0).contains(&x)
in_unit_interval_open(x) == x.class = "finite" /\ 0 <= x.v /\ x.v < Scale

\* (0.0..=1.0).contains(&x): false for NaN and the infinities
in_unit_interval(x) == x.class = "finite" /\ 0 <= x.v /\ x.v <= Scale

\* x <= 0.0: false for NaN
le_zero(x) == (x.class = "finite" /\ x.v <= 0) \/ (x.class = "inf" /\ x.v < 0)

-----------------------------------------------------------------------------
(* u32.  A value is the sequence of its bytes, least significant first,    *)
(* without a most significant zero byte: 0 is << >>, 258 is <<2, 1>>.  The *)
(* same sequences, of any length, are the natural numbers the arithmetic   *)
(* below works on.                                                         *)

\* size_of::<u32>()
U32Bytes == 4

RECURSIVE Big(_)
\* the bytes of a natural number
Big(n) == IF n = 0 THEN <<>> ELSE <<n % U8>> \o Big(n \div U8)

RECURSIVE Norm(_)
\* without most significant zero bytes
Norm(a) ==
  IF a # <<>> /\ a[Len(a)] = 0 THEN Norm(SubSeq(a, 1, Len(a) - 1)) ELSE a

RECURSIVE AddCarry(_, _, _)
AddCarry(a, b, carry) ==
  IF a = <<>> /\ b = <<>> THEN Big(carry)
  ELSE LET t == (IF a = <<>> THEN 0 ELSE Head(a))
                  + (IF b = <<>> THEN 0 ELSE Head(b)) + carry
       IN  <<t % U8>> \o AddCarry(IF a = <<>> THEN <<>> ELSE Tail(a),
                                  IF b = <<>> THEN <<>> ELSE Tail(b),
                                  t \div U8)

\* a + b
BigAdd(a, b) == Norm(AddCarry(a, b, 0))

RECURSIVE MulByte(_, _, _)
\* a * k + carry for one byte k
MulByte(a, k, carry) ==
  IF a = <<>> THEN Big(carry)
  ELSE <<(Head(a) * k + carry) % U8>>
         \o MulByte(Tail(a), k, (Head(a) * k + carry) \div U8)

RECURSIVE BigMul(_, _)
\* a * b
BigMul(a, b) ==
  IF a = <<>> THEN <<>>
  ELSE BigAdd(MulByte(b, Head(a), 0), <<0>> \o BigMul(Tail(a), b))

\* one step of the long division by d: the quotient and remainder of the
\* more significant bytes, then the next byte
DivStep(hi, byte, d) ==
  [q |-> <<(hi.r * U8 + byte) \div d>> \o hi.q, r |-> (hi.r * U8 + byte) % d]

RECURSIVE DivRem(_, _)
DivRem(a, d) ==
  IF a = <<>> THEN [q |-> <<>>, r |-> 0]
  ELSE DivStep(DivRem(Tail(a), d), Head(a), d)

\* a / d rounded down, for an integer d
BigDiv(a, d) == Norm(DivRem(a, d).q)

\* a < b
BigLt(a, b) ==
  \/ Len(a) < Len(b)
  \/ /\ Len(a) = Len(b)
     /\ \E i \in 1..Len(a) :
          a[i] < b[i] /\ \A j \in (i + 1)..Len(a) : a[j] = b[j]

\* a <= b
BigLe(a, b) == a = b \/ BigLt(a, b)

\* u32::min
u32_min(a, b) == IF BigLe(a, b) THEN a ELSE b

\* u32::MAX
u32_MAX == [i \in 1..U32Bytes |-> U8 - 1]

\* the sum or product does not fit a u32
overflows(a) == Len(a) > U32Bytes

\* the u32 a wrapping operation leaves: the value modulo 2^32
wrapping(a) == Norm(SubSeq(a, 1, IF overflows(a) THEN U32Bytes ELSE Len(a)))

\* (x as f64 * pct / 100.0).round() as u32: round is half away from zero;
\* the cast gives 0 for NaN and for a negative value and u32::MAX for a
\* value above it; 0.0 * inf is NaN
percent_of(x, pct) ==
  IF pct.class = "nan" THEN <<>>
  ELSE IF pct.class = "inf"
  THEN IF x = <<>> \/ pct.v < 0 THEN <<>> ELSE u32_MAX
  ELSE IF pct.v <= 0 THEN <<>>
  ELSE LET rounded == BigDiv(BigAdd(BigMul(x, Big(2 * pct.v)),
                                    Big(100 * Scale)), 2 * 100 * Scale)
       IN  IF overflows(rounded) THEN u32_MAX ELSE rounded

-----------------------------------------------------------------------------
(* range.rs.  A Range is its map from combo id to frequency: a function    *)
(* whose domain is the set of ids it holds.                                *)

\* Range::new
Range_new == <<>>

\* insert_all keeping the frequency of an id that is already in the map
insert_all_keep_first(combos, combo_ids, frequency) ==
  [k \in (DOMAIN combos) \cup {combo_ids[i] : i \in 1..Len(combo_ids)} |->
     IF k \in DOMAIN combos THEN combos[k] ELSE frequency]

\* for combo_id in combo_ids { range.combos.insert(combo_id, frequency) }:
\* every id of the token is inserted with the token's one frequency, so the
\* loop leaves each of them at that frequency and the other entries as they were
insert_all(combos, combo_ids, frequency) ==
  [k \in (DOMAIN combos) \cup {combo_ids[i] : i \in 1..Len(combo_ids)} |->
     IF \E i \in 1..Len(combo_ids) : combo_ids[i] = k
     THEN frequency
     ELSE combos[k]]

\* the suited/offsuit modifier of a three-char hand: Some(true) for s,
\* Some(false) for o; any other char is refused
modifier_of(c) ==
  CASE c \in {"s", "S"} -> Ok(Some(TRUE))
    [] c \in {"o", "O"} -> Ok(Some(FALSE))
    [] OTHER -> Err("Invalid modifier", <<c>>)

\* the modifier string that the plus and range loops append to a hand
modifier_str(suited_filter) ==
  IF suited_filter = Some(TRUE) THEN <<"s">>
  ELSE IF suited_filter = Some(FALSE) THEN <<"o">>
  ELSE <<>>

\* ranks_match comparing the ranks in the order they are written
ranks_match_as_written(rank1, rank2, c1_rank, c2_rank) ==
  c1_rank = rank1 /\ c2_rank = rank2

\* the rank test of parse_single_hand: the combo holds the higher of the two
\* ranks in card1
ranks_match(rank1, rank2, c1_rank, c2_rank) ==
  IF rank1 >= rank2
  THEN c1_rank = rank1 /\ c2_rank = rank2
  ELSE c1_rank = rank2 /\ c2_rank = rank1

\* the suit test of parse_single_hand
suit_ok(suited_filter, is_suited) ==
  ~ \/ (suited_filter = Some(TRUE) /\ ~is_suited)
    \/ (suited_filter = Some(FALSE) /\ is_suited)

\* what parse_single_hand returns for the combos it matched
single_hand_result(s, combo_ids) ==
  IF combo_ids = <<>> THEN Err("No combos found for hand", s) ELSE Ok(combo_ids)

\* parse_single_hand
parse_single_hand(s, all_combos) ==
  LET chars == s
  IN  IF Len(chars) < 2 THEN Err("Invalid hand", s)
      ELSE
      LET rank1 == Rank_from_char(At(chars, 0))
          rank2 == Rank_from_char(At(chars, 1))
          suited_filter ==
            IF Len(chars) = 3 THEN modifier_of(At(chars, 2))
            ELSE IF Len(chars) = 2 THEN Ok(None)
            ELSE Err("Invalid hand format", s)
      IN  IF ~IsSome(rank1) THEN Err("Invalid rank", <<At(chars, 0)>>)
          ELSE IF ~IsSome(rank2) THEN Err("Invalid rank", <<At(chars, 1)>>)
          ELSE IF IsErr(suited_filter) THEN suited_filter
          ELSE
          LET Matches(combo) ==
                /\ ranks_match(Unwrap(rank1), Unwrap(rank2),
                               Card_rank(combo.card1), Card_rank(combo.card2))
                /\ suit_ok(suited_filter.val,
                           Card_suit(combo.card1) = Card_suit(combo.card2))
              matched == SelectSeq(all_combos, Matches)
          IN  single_hand_result(s, [i \in 1..Len(matched) |-> matched[i].id])

RECURSIVE extend_each(_, _, _)
\* for each hand_str of a loop, in loop order:
\*   combo_ids.extend(parse_single_hand(&hand_str, &all_combos)?)
extend_each(hand_strs, all_combos, combo_ids) ==
  IF hand_strs = <<>>
  THEN Ok(combo_ids)
  ELSE LET r == parse_single_hand(Head(hand_strs), all_combos)
       IN  IF IsErr(r) THEN r
           ELSE extend_each(Tail(hand_strs), all_combos, combo_ids \o r.val)

Min(a, b) == IF a <= b THEN a ELSE b

Max(a, b) == IF a >= b THEN a ELSE b

\* pair_hands with the upper rank excluded: for rank in lo..hi
pair_hands_exclusive(lo, hi) ==
  [k \in 1..(hi - lo) |->
     <<Rank_to_char(lo + k - 1), Rank_to_char(lo + k - 1)>>]

\* format!("{}{}", r.to_char(), r.to_char()) for rank in lo..=hi
pair_hands(lo, hi) ==
  [k \in 1..(hi - lo + 1) |->
     <<Rank_to_char(lo + k - 1), Rank_to_char(lo + k - 1)>>]

\* kicker_hands with the two ends of the loop only: lo and hi - 1
kicker_hands_ends_only(first, lo, hi, suited_filter) ==
  [k \in 1..Min(hi - lo, 2) |->
     <<Rank_to_char(first), Rank_to_char(IF k = 1 THEN lo ELSE hi - 1)>>
       \o modifier_str(suited_filter)]

\* format!("{}{}{}", first.to_char(), r.to_char(), modifier) for rank in lo..hi
kicker_hands(first, lo, hi, suited_filter) ==
  [k \in 1..(hi - lo) |->
     <<Rank_to_char(first), Rank_to_char(lo + k - 1)>>
       \o modifier_str(suited_filter)]

\* the suited/offsuit filter of parse_plus_notation
plus_filter(chars) ==
  IF Len(chars) = 3 THEN modifier_of(At(chars, 2)) ELSE Ok(None)

\* plus_hands with the first rank included: rank2 ..= rank1
plus_hands_inclusive(rank1, rank2, suited_filter) ==
  kicker_hands(rank1, rank2, rank1 + 1, suited_filter)

\* the hands a non-pair plus pattern loops over: rank2 .. rank1, rank1 excluded
plus_hands(rank1, rank2, suited_filter) ==
  kicker_hands(rank1, rank2, rank1, suited_filter)

\* parse_plus_notation, on the pattern without its trailing '+'
parse_plus_notation(s) ==
  LET all_combos == generate_all_combos
      chars == s
  IN  IF Len(chars) < 2 THEN Err("Invalid plus notation", s)
      ELSE
      LET rank1 == Rank_from_char(At(chars, 0))
          rank2 == Rank_from_char(At(chars, 1))
          suited_filter == plus_filter(chars)
      IN  IF ~IsSome(rank1) THEN Err("Invalid rank", <<At(chars, 0)>>)
          ELSE IF ~IsSome(rank2) THEN Err("Invalid rank", <<At(chars, 1)>>)
          ELSE IF IsErr(suited_filter) THEN suited_filter
          ELSE IF rank1 = rank2
          THEN extend_each(pair_hands(Unwrap(rank1), Ace), all_combos, <<>>)
          ELSE extend_each(plus_hands(Unwrap(rank1), Unwrap(rank2),
                                      suited_filter.val),
                           all_combos, <<>>)

\* the suited/offsuit filter of parse_range_notation: read from the start
\* hand alone
range_filter(start_chars) ==
  IF Len(start_chars) = 3 THEN modifier_of(At(start_chars, 2)) ELSE Ok(None)

\* parse_range_notation
parse_range_notation(s) ==
  LET all_combos == generate_all_combos
      parts == split(s, "-")
  IN  IF Len(parts) # 2 THEN Err("Invalid range format", s)
      ELSE
      LET start_chars == At(parts, 0)
          end_chars   == At(parts, 1)
      IN  IF Len(start_chars) < 2 \/ Len(end_chars) < 2
          THEN Err("Invalid range", s)
          ELSE
          LET start_rank1 == Rank_from_char(At(start_chars, 0))
              start_rank2 == Rank_from_char(At(start_chars, 1))
              end_rank1   == Rank_from_char(At(end_chars, 0))
              end_rank2   == Rank_from_char(At(end_chars, 1))
              suited_filter == range_filter(start_chars)
          IN  IF ~IsSome(start_rank1)
              THEN Err("Invalid rank", <<At(start_chars, 0)>>)
              ELSE IF ~IsSome(start_rank2)
              THEN Err("Invalid rank", <<At(start_chars, 1)>>)
              ELSE IF ~IsSome(end_rank1)
              THEN Err("Invalid rank", <<At(end_chars, 0)>>)
              ELSE IF ~IsSome(end_rank2)
              THEN Err("Invalid rank", <<At(end_chars, 1)>>)
              ELSE IF IsErr(suited_filter) THEN suited_filter
              ELSE IF start_rank1 = start_rank2 /\ end_rank1 = end_rank2
              THEN extend_each(
                     pair_hands(Min(Unwrap(start_rank1), Unwrap(end_rank1)),
                                Max(Unwrap(start_rank1), Unwrap(end_rank1))),
                     all_combos, <<>>)
              ELSE IF start_rank1 # end_rank1
              THEN Err("Range must have same first rank", s)
              ELSE extend_each(
                     kicker_hands(Unwrap(start_rank1),
                                  Min(Unwrap(start_rank2), Unwrap(end_rank2)),
                                  Max(Unwrap(start_rank2), Unwrap(end_rank2)) + 1,
                                  suited_filter.val),
                     all_combos, <<>>)

\* parse_hand_pattern
parse_hand_pattern(s) ==
  LET all_combos == generate_all_combos
  IN  IF ends_with(s, "+") THEN parse_plus_notation(Slice(s, 0, Len(s) - 1))
      ELSE IF contains(s, "-") THEN parse_range_notation(s)
      ELSE parse_single_hand(s, all_combos)

\* the frequency suffix of a token: (hand_str, frequency)
token_frequency(token) ==
  LET colon_pos == find(token, ":")
  IN  IF IsSome(colon_pos)
      THEN LET hand     == Slice(token, 0, Unwrap(colon_pos))
               freq_str == Slice(token, Unwrap(colon_pos) + 1, Len(token))
               freq     == parse_f64(freq_str)
           IN  IF IsErr(freq) THEN Err("Invalid frequency", freq_str)
               ELSE IF ~in_unit_interval(freq.val)
               THEN Err("Frequency must be 0.0-1.0", freq_str)
               ELSE Ok([hand |-> hand, frequency |-> freq.val])
      ELSE Ok([hand |-> token, frequency |-> Finite(Scale)])

\* one pass of the token loop of Range::parse, on a token that is not blank
parse_token(token, combos) ==
  LET hf == token_frequency(token)
  IN  IF IsErr(hf) THEN hf
      ELSE LET combo_ids == parse_hand_pattern(hf.val.hand)
           IN  IF IsErr(combo_ids) THEN combo_ids
               ELSE Ok(insert_all(combos, combo_ids.val, hf.val.frequency))

RECURSIVE parse_tokens_best_effort(_, _)
\* parse_tokens skipping a failing token instead of returning its error
parse_tokens_best_effort(tokens, combos) ==
  IF tokens = <<>>
  THEN Ok(combos)
  ELSE LET token == trim(Head(tokens))
       IN  IF token = <<>>
           THEN parse_tokens_best_effort(Tail(tokens), combos)
           ELSE LET r == parse_token(token, combos)
                IN  parse_tokens_best_effort(Tail(tokens),
                      IF IsErr(r) THEN combos ELSE r.val)

RECURSIVE parse_tokens(_, _)
\* for token in s.split(','): blank tokens are skipped, the first failing
\* token ends the call with its error
parse_tokens(tokens, combos) ==
  IF tokens = <<>>
  THEN Ok(combos)
  ELSE LET token == trim(Head(tokens))
       IN  IF token = <<>>
           THEN parse_tokens(Tail(tokens), combos)
           ELSE LET r == parse_token(token, combos)
                IN  IF IsErr(r) THEN r ELSE parse_tokens(Tail(tokens), r.val)

\* Range::parse failing on the empty string and on a blank token
Range_parse_blank_fails(s) ==
  IF \E i \in 1..Len(split(s, ",")) : trim(split(s, ",")[i]) = <<>>
  THEN Err("Empty token", s)
  ELSE parse_tokens(split(s, ","), Range_new)

\* Range::parse
Range_parse(s) ==
  IF s = <<>> THEN Ok(Range_new) ELSE parse_tokens(split(s, ","), Range_new)

\* Range::is_empty
Range_is_empty(self) == DOMAIN self = {}

\* Range::len
Range_len(self) == Cardinality(DOMAIN self)

\* Range::get_frequency: 0.0 for an id the map does not hold
Range_get_frequency(self, combo_id) ==
  IF combo_id \in DOMAIN self THEN self[combo_id] ELSE Finite(0)

\* parse_board, the concatenated form: for i in (0..chars.len()).step_by(2),
\* the chunk chars[i..i + 2] is parsed; the slice panics when it runs past
\* the end of chars
RECURSIVE board_chunks(_, _, _)
board_chunks(chars, i, cards) ==
  IF i >= Len(chars) THEN Ok(cards)
  ELSE IF i + 2 > Len(chars) THEN Panic
  ELSE LET r == Card_from_str(Slice(chars, i, i + 2))
       IN  IF IsErr(r) THEN r
           ELSE board_chunks(chars, i + 2, Append(cards, r.val))

RECURSIVE collect_cards(_, _)
\* .map(|card_str| card_str.parse()).collect(): the cards in order, or the
\* first error
collect_cards(strs, cards) ==
  IF strs = <<>> THEN Ok(cards)
  ELSE LET r == Card_from_str(Head(strs))
       IN  IF IsErr(r) THEN r
           ELSE collect_cards(Tail(strs), Append(cards, r.val))

\* parse_board
parse_board(str) ==
  LET s == trim(str)
  IN  IF contains(s, " ")
      THEN collect_cards(split_whitespace(s), <<>>)
      ELSE IF str_len(s) % 2 # 0
      THEN Err("Invalid board string length", s)
      ELSE board_chunks(s, 0, <<>>)

\* filter_blocked_combos giving the kept combos new ids 0, 1, 2, ...
filter_blocked_combos_renumbered(combos, board) ==
  LET Kept(combo) == ~is_blocked_by(combo, board)
      kept == SelectSeq(combos, Kept)
  IN  [k \in 1..Len(kept) |-> Combo_new(kept[k].card1, kept[k].card2, k - 1)]

\* filter_blocked_combos
filter_blocked_combos(combos, board) ==
  LET Kept(combo) == ~is_blocked_by(combo, board)
  IN  SelectSeq(combos, Kept)

\* Range::filter_blocked testing only the last card of the board
Range_filter_blocked_last_card(self, board) ==
  LET all_combos == generate_all_combos
      last == IF board = <<>> THEN <<>> ELSE <<board[Len(board)]>>
  IN  [combo_id \in {id \in DOMAIN self :
                       ~is_blocked_by(At(all_combos, id), last)} |->
         self[combo_id]]

\* Range::filter_blocked: all_combos[combo_id as usize] panics for an id past
\* the end of the enumeration
Range_filter_blocked(self, board) ==
  LET all_combos == generate_all_combos
  IN  IF \E combo_id \in DOMAIN self : combo_id >= Len(all_combos)
      THEN Panic
      ELSE LET kept == {combo_id \in DOMAIN self :
                          ~is_blocked_by(At(all_combos, combo_id), board)}
           IN  [combo_id \in kept |-> self[combo_id]]

-----------------------------------------------------------------------------
(* bet_sizing.rs: BetSize and the parsers of bet-size strings.             *)

Percent(pct) == <<"Percent", pct>>

AllIn == <<"AllIn">>

\* parse_single_bet_size
parse_single_bet_size(str) ==
  LET s == trim(str)
  IN  IF \/ eq_ignore_ascii_case(s, <<"a">>)
         \/ eq_ignore_ascii_case(s, <<"a", "l", "l", "i", "n">>)
      THEN Ok(AllIn)
      ELSE LET value == parse_f64(s)
           IN  IF IsErr(value) THEN Err("Invalid bet size", s)
               ELSE IF le_zero(value.val)
               THEN Err("Bet size must be positive", s)
               ELSE Ok(Percent(value.val))

RECURSIVE bet_tokens(_, _)
\* the token loop of parse_bet_size_string
bet_tokens(tokens, sizes) ==
  IF tokens = <<>>
  THEN Ok(sizes)
  ELSE LET token == trim(Head(tokens))
       IN  IF token = <<>>
           THEN bet_tokens(Tail(tokens), sizes)
           ELSE LET size == parse_single_bet_size(token)
                IN  IF IsErr(size) THEN size
                    ELSE bet_tokens(Tail(tokens), Append(sizes, size.val))

\* parse_bet_size_string returning the empty list when no token remains
parse_bet_size_string_empty_ok(s) == bet_tokens(split(s, ","), <<>>)

\* parse_bet_size_string
parse_bet_size_string(s) ==
  LET sizes == bet_tokens(split(s, ","), <<>>)
  IN  IF IsErr(sizes) THEN sizes
      ELSE IF sizes.val = <<>>
      THEN Err("Bet size string cannot be empty", s)
      ELSE sizes

\* BetSizeConfig::from_bet_sizes
from_bet_sizes(bet_sizes) ==
  LET oop_bet   == parse_bet_size_string(bet_sizes.oop_bet)
      oop_raise == parse_bet_size_string(bet_sizes.oop_raise)
      ip_bet    == parse_bet_size_string(bet_sizes.ip_bet)
      ip_raise  == parse_bet_size_string(bet_sizes.ip_raise)
  IN  IF IsErr(oop_bet) THEN oop_bet
      ELSE IF IsErr(oop_raise) THEN oop_raise
      ELSE IF IsErr(ip_bet) THEN ip_bet
      ELSE IF IsErr(ip_raise) THEN ip_raise
      ELSE Ok([oop_bet |-> oop_bet.val, oop_raise |-> oop_raise.val,
               ip_bet |-> ip_bet.val, ip_raise |-> ip_raise.val])

\* BetSizeConfig::default
BetSizeConfig_default ==
  [oop_bet   |-> parse_bet_size_string(
                   <<"3", "3", ",", " ", "6", "7", ",", " ", "a">>).val,
   oop_raise |-> parse_bet_size_string(<<"5", "0", ",", " ", "a">>).val,
   ip_bet    |-> parse_bet_size_string(
                   <<"3", "3", ",", " ", "6", "7", ",", " ", "a">>).val,
   ip_raise  |-> parse_bet_size_string(<<"5", "0", ",", " ", "a">>).val]

\* BetSize::calculate without the cap at the stack
BetSize_calculate_uncapped(self, pot, stack) ==
  IF self[1] = "Percent" THEN percent_of(pot, self[2]) ELSE stack

\* BetSize::calculate
BetSize_calculate(self, pot, stack) ==
  IF self[1] = "Percent"
  THEN u32_min(percent_of(pot, self[2]), stack)
  ELSE stack

\* BetSizeConfig::get_bet_amounts
get_bet_amounts(self, oop, pot, stack) ==
  LET sizes == IF oop THEN self.oop_bet ELSE self.ip_bet
      Kept(amount) == BigLt(<<>>, amount) /\ BigLe(amount, stack)
  IN  SelectSeq([i \in 1..Len(sizes) |->
                   BetSize_calculate(sizes[i], pot, stack)], Kept)

\* the amount of one raise rule before the filter: to_call + raise_amount,
\* not yet reduced to 32 bits
raise_of(size, pot_after_call, to_call, stack) ==
  IF size[1] = "Percent"
  THEN BigAdd(to_call, percent_of(pot_after_call, size[2]))
  ELSE stack

\* the map and filter of get_raise_amounts
raise_amounts(sizes, pot_after_call, to_call, stack, overflow_checks) ==
  LET amounts == [i \in 1..Len(sizes) |->
                    raise_of(sizes[i], pot_after_call, to_call, stack)]
      Kept(amount) == BigLt(to_call, amount) /\ BigLe(amount, stack)
  IN  IF overflow_checks /\ \E i \in 1..Len(sizes) : overflows(amounts[i])
      THEN Panic
      ELSE Returned(SelectSeq([i \in 1..Len(sizes) |-> wrapping(amounts[i])],
                              Kept))

\* BetSizeConfig::get_raise_amounts.  pot + to_call and to_call +
\* raise_amount are u32 additions: with overflow checks (the debug profile)
\* an overflow panics, without them (the release profile) it wraps
get_raise_amounts(self, oop, pot, to_call, stack, overflow_checks) ==
  LET sizes == IF oop THEN self.oop_raise ELSE self.ip_raise
      pot_after_call == BigAdd(pot, to_call)
  IN  IF overflow_checks /\ overflows(pot_after_call)
      THEN Panic
      ELSE raise_amounts(sizes, wrapping(pot_after_call), to_call, stack,
                         overflow_checks)

-----------------------------------------------------------------------------
(* mock_data.rs: the table of get_mock_combos.  A strategy probability is  *)
(* kept in units of 1/1000.                                                *)

MockRow(hand, hand_id, strategy) ==
  [hand |-> hand, hand_id |-> hand_id, strategy |-> strategy]

\* get_mock_combos
get_mock_combos == <<
    MockRow(<<"A", "c", "A", "d">>, 1320, <<150, 200, 500, 150>>),
    MockRow(<<"A", "c", "A", "s">>, 1322, <<150, 200, 500, 150>>),
    MockRow(<<"A", "d", "A", "s">>, 1324, <<150, 200, 500, 150>>),
    MockRow(<<"A", "c", "K", "c">>, 1301, <<200, 450, 300, 50>>),
    MockRow(<<"A", "s", "K", "s">>, 1319, <<200, 450, 300, 50>>),
    MockRow(<<"A", "c", "K", "h">>, 1312, <<250, 400, 300, 50>>),
    MockRow(<<"A", "c", "K", "s">>, 1316, <<250, 400, 300, 50>>),
    MockRow(<<"A", "d", "K", "c">>, 1302, <<250, 400, 300, 50>>),
    MockRow(<<"A", "d", "K", "h">>, 1313, <<250, 400, 300, 50>>),
    MockRow(<<"A", "d", "K", "s">>, 1317, <<250, 400, 300, 50>>),
    MockRow(<<"A", "s", "K", "c">>, 1304, <<250, 400, 300, 50>>),
    MockRow(<<"A", "s", "K", "h">>, 1315, <<250, 400, 300, 50>>),
    MockRow(<<"K", "c", "K", "h">>, 1299, <<200, 250, 400, 150>>),
    MockRow(<<"K", "c", "K", "s">>, 1300, <<200, 250, 400, 150>>),
    MockRow(<<"K", "h", "K", "s">>, 1311, <<200, 250, 400, 150>>),
    MockRow(<<"Q", "d", "Q", "h">>, 1271, <<100, 200, 500, 200>>),
    MockRow(<<"Q", "d", "Q", "s">>, 1272, <<100, 200, 500, 200>>),
    MockRow(<<"Q", "h", "Q", "s">>, 1281, <<100, 200, 500, 200>>),
    MockRow(<<"A", "d", "Q", "d">>, 1278, <<250, 400, 250, 100>>),
    MockRow(<<"A", "s", "Q", "s">>, 1297, <<250, 400, 250, 100>>),
    MockRow(<<"A", "c", "J", "c">>, 1217, <<450, 350, 150, 50>>),
    MockRow(<<"A", "d", "J", "d">>, 1232, <<450, 350, 150, 50>>),
    MockRow(<<"A", "s", "J", "s">>, 1259, <<450, 350, 150, 50>>),
    MockRow(<<"A", "c", "T", "c">>, 1151, <<550, 300, 120, 30>>),
    MockRow(<<"A", "d", "T", "d">>, 1170, <<550, 300, 120, 30>>),
    MockRow(<<"A", "s", "T", "s">>, 1205, <<550, 300, 120, 30>>),
    MockRow(<<"K", "h", "Q", "h">>, 1284, <<300, 350, 300, 50>>),
    MockRow(<<"K", "s", "Q", "s">>, 1293, <<300, 350, 300, 50>>),
    MockRow(<<"J", "c", "J", "d">>, 1206, <<650, 220, 100, 30>>),
    MockRow(<<"J", "c", "J", "h">>, 1207, <<650, 220, 100, 30>>),
    MockRow(<<"J", "c", "J", "s">>, 1208, <<650, 220, 100, 30>>),
    MockRow(<<"J", "d", "J", "h">>, 1221, <<650, 220, 100, 30>>),
    MockRow(<<"J", "d", "J", "s">>, 1222, <<650, 220, 100, 30>>),
    MockRow(<<"J", "h", "J", "s">>, 1235, <<650, 220, 100, 30>>),
    MockRow(<<"T", "c", "T", "d">>, 1136, <<700, 180, 90, 30>>),
    MockRow(<<"T", "c", "T", "h">>, 1137, <<700, 180, 90, 30>>),
    MockRow(<<"T", "c", "T", "s">>, 1138, <<700, 180, 90, 30>>),
    MockRow(<<"T", "d", "T", "h">>, 1155, <<700, 180, 90, 30>>),
    MockRow(<<"T", "d", "T", "s">>, 1156, <<700, 180, 90, 30>>),
    MockRow(<<"T", "h", "T", "s">>, 1173, <<700, 180, 90, 30>>),
    MockRow(<<"9", "c", "9", "d">>, 1050, <<750, 150, 80, 20>>),
    MockRow(<<"9", "c", "9", "h">>, 1051, <<750, 150, 80, 20>>),
    MockRow(<<"9", "c", "9", "s">>, 1052, <<750, 150, 80, 20>>),
    MockRow(<<"9", "d", "9", "h">>, 1073, <<750, 150, 80, 20>>),
    MockRow(<<"9", "d", "9", "s">>, 1074, <<750, 150, 80, 20>>),
    MockRow(<<"9", "h", "9", "s">>, 1095, <<750, 150, 80, 20>>)
  >>

\* get_mock_actions; amounts in units of 1/Scale
get_mock_actions == <<
    [name |-> "Check", action_type |-> "check",
     amount_big_blinds |-> Finite(0), amount_percent |-> Finite(0),
     frequency |-> Finite(0)],
    [name |-> "Bet 33%", action_type |-> "bet",
     amount_big_blinds |-> Finite((66 * Scale) \div 10),
     amount_percent |-> Finite(33 * Scale), frequency |-> Finite(0)],
    [name |-> "Bet 67%", action_type |-> "bet",
     amount_big_blinds |-> Finite((134 * Scale) \div 10),
     amount_percent |-> Finite(67 * Scale), frequency |-> Finite(0)],
    [name |-> "All-in", action_type |-> "allin",
     amount_big_blinds |-> Finite(100 * Scale),
     amount_percent |-> Finite(500 * Scale), frequency |-> Finite(0)]
  >>

-----------------------------------------------------------------------------
(* error.rs and api/solve.rs: the handler of POST /v1/solve.  Its argument *)
(* is the SolveRequest the Json extractor deserialized.                    *)

\* StatusCode::OK
OK == 200

\* StatusCode::UNPROCESSABLE_ENTITY
UNPROCESSABLE_ENTITY == 422

\* StatusCode::NOT_FOUND
NOT_FOUND == 404

\* StatusCode::INTERNAL_SERVER_ERROR
INTERNAL_SERVER_ERROR == 500

\* <AppError as ResponseError>::status_code
status_code(self) ==
  IF self[1] = "ValidationError" THEN UNPROCESSABLE_ENTITY
  ELSE IF self[1] = "NotFound" THEN NOT_FOUND
  ELSE INTERNAL_SERVER_ERROR

\* <AppError as From<String>>::from
AppError_from(msg) == <<"Internal", msg>>

\* <AppError as ResponseError>::error_response
error_response(self) ==
  [status |-> status_code(self),
   body   |-> [error   |-> IF self[1] = "ValidationError"
                           THEN "validation_error"
                           ELSE IF self[1] = "NotFound" THEN "not_found"
                           ELSE "internal_error",
               message |-> self[2]]]

\* solve answering with the effective stack as the pot and a fixed count
solve_unrelated(req) ==
  [status |-> OK,
   body   |-> [player          |-> req.player,
               board           |-> req.board,
               pot             |-> req.effective_stack,
               effective_stack |-> req.effective_stack,
               num_combos      |-> 15,
               actions         |-> get_mock_actions,
               combos          |-> get_mock_combos]]

\* solve: Ok(HttpResponse::Ok().json(response))
solve(req) ==
  LET actions == get_mock_actions
      combos  == get_mock_combos
  IN  [status |-> OK,
       body   |-> [player          |-> req.player,
                   board           |-> req.board,
                   pot             |-> req.starting_pot,
                   effective_stack |-> req.effective_stack,
                   num_combos      |-> Len(combos),
                   actions         |-> actions,
                   combos          |-> combos]]

-----------------------------------------------------------------------------
(* The inputs of the calls.                                                *)

MaxTokens == 2

MaxBoardCards == 3

MaxCardLen == 3

MaxNextBoardCards == 2

\* the sequences over S of length 0..n
RECURSIVE SeqsUpTo(_, _)
SeqsUpTo(S, n) ==
  IF n = 0 THEN {<<>>}
  ELSE LET shorter == SeqsUpTo(S, n - 1)
       IN  shorter \cup {Append(s, x) : s \in shorter, x \in S}

RankChars == {Rank_to_char(Rank_all[i]) : i \in 1..NumRanks}

ModStrs == {<<>>, <<"s">>, <<"o">>, <<"x">>}

\* two rank chars and an optional modifier char, well-formed or not
HandStrs == {<<x, y>> \o m : x \in RankChars, y \in RankChars, m \in ModStrs}

\* hands of other shapes: too short, too long, lower and upper case, a char
\* that is no rank, a two-byte char
OddHandStrs ==
  { <<>>, <<"A">>, <<"X", "X">>, <<"A", "X">>, <<"A", "K", "s", "x">>,
    <<"A", "K", "x", "s">>, <<"a", "k", "S">>, <<"K", "a", "O">>,
    <<"t", "j">>, <<"A", EAcute>>, <<"A", "K", EAcute>>, <<"A", "K", " ">> }

SingleTokens == HandStrs \cup OddHandStrs

PlusTokens == {h \o <<"+">> : h \in SingleTokens}

\* the hands on either side of a range token
EndRankChars == {"A", "J", "9"}

EndHandStrs ==
  {<<x, y>> \o m : x \in EndRankChars, y \in EndRankChars, m \in ModStrs}
    \cup {<<"A">>, <<"A", "Q", "s", "x">>, <<"X", "X">>}

DashTokens ==
  {a \o <<"-">> \o b : a \in EndHandStrs, b \in EndHandStrs}
    \cup {<<"A", "A", "-", "K", "K", "-", "Q", "Q">>, <<"-">>,
          <<"J", "J", "-", "9", "9", "+">>}

FreqStrs ==
  { <<"0">>, <<"1">>, <<"0", ".", "5">>, <<"1", ".", "0">>,
    <<"0", ".", "0">>, <<".", "2", "5">>, <<"-", "0">>,
    <<"1", ".", "0", "0", "1">>, <<"1", ".", "5">>, <<"-", "0", ".", "1">>,
    <<"n", "a", "n">>, <<"i", "n", "f">>, <<"x">>, <<>>, <<" ", "1">> }

FreqTokens ==
  {h \o <<":">> \o f :
     h \in {<<"Q", "Q">>, <<"A", "K", "s">>, <<"X", "X">>}, f \in FreqStrs}

\* the tokens of the strings of several tokens: colliding hands with
\* different frequencies, failing hands, failing frequencies, blanks
ListTokens ==
  { <<"A", "A">>, <<"A", "A", ":", "0", ".", "5">>, <<"A", "A", ":", "0">>,
    <<"A", "K", "s">>, <<"A", "K", ":", "0", ".", "5">>, <<"Q", "Q", "+">>,
    <<" ", "K", "K", " ">>, <<"A", "K", "x">>, <<"A", "A", ":", "1", ".", "5">>,
    <<>>, <<" ">> }

ListInputs == {Join(ts, <<",">>) : ts \in SeqsUpTo(ListTokens, MaxTokens)}

\* the range of the example request of the API
ExampleRange ==
  Join(<< <<"A", "A">>, <<"A", "K", "s">>, <<"A", "K", "o">>, <<"K", "K">>,
          <<"Q", "Q", ":", "0", ".", "5">>, <<"J", "J", "-", "9", "9">>,
          <<"A", "Q", "s", "-", "A", "T", "s">>, <<"K", "Q", "s">> >>, <<",">>)

\* the strings whose parsed ranges Range::filter_blocked is called on
FilterRangeStrs ==
  { <<>>, <<"A", "A">>, <<"A", "K", "s">>, <<"Q", "Q", "+">>,
    <<"A", "A", ":", "0", ".", "5", ",", "K", "K">>,
    <<"A", "K", "o", ":", "0", ".", "2", "5", ",", "A", "Q", "s", ":", "0">>,
    <<"2", "2">>, ExampleRange }

\* strings with stray commas and whitespace, and the same hands without them
BlankRangeStrs ==
  { <<"A", "A", ",", ",", "K", "K", ",", " ">>, <<"A", "A", ",", "K", "K">>,
    <<",">>, <<",", ",">>, <<" ">>, <<" ", ",", "\t", ",">>,
    <<",", "A", "K", "s", ":", "0", ".", "5", ",", " ", ",", "Q", "Q", ",">>,
    <<",", "A", "K", "x", ",">>, <<"A", "A", ",", ",", "Q", "Q", ":", "2">> }

RangeInputs ==
  SingleTokens \cup PlusTokens \cup DashTokens \cup FreqTokens \cup ListInputs
    \cup FilterRangeStrs \cup BlankRangeStrs

CardChars == {"A", "a", "2", "T", "h", "H", "S", "x", EAcute}

\* the cards Card::new builds
Cards ==
  {Card_new(Rank_all[i], Suit_all[j]) : i \in 1..NumRanks, j \in 1..NumSuits}

RankSuitInputs ==
  [rank : {Rank_all[i] : i \in 1..NumRanks},
   suit : {Suit_all[j] : j \in 1..NumSuits}]

CardInputs == SeqsUpTo(CardChars, MaxCardLen)

BoardChunks ==
  { <<"A", "h">>, <<"K", "d">>, <<"Q", "c">>, <<"q", "C">>, <<"A", "h", " ">>,
    <<"X", "d">>, <<"A">>, <<EAcute>>, <<"\t">> }

BoardInputs ==
  {Join(cs, sep) : cs \in SeqsUpTo(BoardChunks, MaxBoardCards),
                   sep \in {<<>>, <<" ">>}}

BetTokens ==
  { <<"3", "3">>, <<"6", "7">>, <<"a">>, <<"A", "L", "L", "I", "N">>,
    <<" ", "2", ".", "5">>, <<"0">>, <<"-", "5">>, <<"x">>,
    <<"n", "a", "n">>, <<>>, <<" ">> }

BetFieldStrs ==
  { <<"3", "3", ",", " ", "6", "7", ",", " ", "a">>, <<"5", "0", ",", "a">>,
    <<"5", "0", ",", "x">>, <<>>, <<"a", ",", "N", "a", "N">> }

\* longer strings with blank tokens between, before and after the sizes
BlankBetStrs ==
  { <<",", ",">>, <<" ", ",", " ", ",", "\t">>, <<" ", " ", " ">>,
    <<",", "a", ",", ",", " ", "3", "3", " ", ",">>,
    <<"6", "7", ",", ",", "6", "7", ",", "a", ",", "3", "3">> }

BetInputs ==
  {Join(ts, <<",">>) : ts \in SeqsUpTo(BetTokens, MaxTokens)}
    \cup BetFieldStrs \cup BlankBetStrs

\* single bet-size tokens: the all-in marker in several casings and near
\* misses of it, numbers above, at and below 0, spellings of values that
\* are no finite number, text
SingleBetInputs ==
  BetTokens \cup
  { <<"A">>, <<"a", "l", "l", "i", "n">>, <<"A", "l", "l", "I", "n">>,
    <<" ", "a", " ">>, <<"a", "l">>, <<"a", "l", "l", "i", "n", "x">>,
    <<"a", "l", "l", " ", "i", "n">>, <<"3", "3", ".", "5">>, <<".", "5">>,
    <<"5", ".">>, <<".">>, <<"+", "5">>, <<"-", "0">>, <<"0", ".", "0">>,
    <<"0", ".", "0", "0", "1">>, <<"1", ".", "2", ".", "3">>,
    <<"N", "a", "N">>, <<"-", "n", "a", "n">>, <<"i", "n", "f">>,
    <<"-", "i", "n", "f">>, <<"3", "3", "%">>, <<"5", EAcute>> }

BetSizesInputs ==
  [oop_bet : BetFieldStrs, oop_raise : BetFieldStrs,
   ip_bet : BetFieldStrs, ip_raise : BetFieldStrs]

\* the cards of the boards: Ah, Kd, Qc, 2c
BoardCards ==
  {Card_from_str(s).val :
     s \in {<<"A", "h">>, <<"K", "d">>, <<"Q", "c">>, <<"2", "c">>}}

\* boards of up to MaxBoardCards cards, repeats included
Boards == SeqsUpTo(BoardCards, MaxBoardCards)

\* the boards a Range that was filtered before is filtered against
NextBoards == SeqsUpTo(BoardCards, MaxNextBoardCards)

\* the combos is_blocked_by is called on: with an Ace of hearts, a King of
\* diamonds, both, neither
BlockCombos == {generate_all_combos[k] : k \in {1, 2, 6, 52, 55, 58, 101, 1326}}

BlockedByInputs == [combo : BlockCombos, cards : Boards]

\* the combo lists filter_blocked_combos is called on: all combos, the six
\* combos of two Aces, none
ComboLists ==
  {generate_all_combos, Slice(generate_all_combos, 0, 6), <<>>}

FilterCombosInputs == [combos : ComboLists, board : Boards]

\* the bet-size lists of the configurations: the two defaults, a fraction
\* and a repeated rule, rules above the pot and out of order, values no
\* parsed rule is less than (not a number, infinite, negative), no rule
SizeLists ==
  { <<Percent(Finite(33 * Scale)), Percent(Finite(67 * Scale)), AllIn>>,
    <<Percent(Finite(50 * Scale)), AllIn>>,
    <<Percent(Finite((5 * Scale) \div 2)), Percent(Finite(50 * Scale)),
      Percent(Finite(50 * Scale))>>,
    <<AllIn, Percent(Finite(1000 * Scale)), Percent(Finite(100 * Scale))>>,
    <<Percent(NaN), Percent(Inf(1)), Percent(Finite(-5 * Scale))>>,
    <<>> }

\* the default configuration, and configurations whose out-of-position and
\* in-position lists differ
Configs ==
  {[oop_bet   |-> <<Percent(Finite(33 * Scale)), Percent(Finite(67 * Scale)),
                    AllIn>>,
    oop_raise |-> <<Percent(Finite(50 * Scale)), AllIn>>,
    ip_bet    |-> <<Percent(Finite(33 * Scale)), Percent(Finite(67 * Scale)),
                    AllIn>>,
    ip_raise  |-> <<Percent(Finite(50 * Scale)), AllIn>>]}
    \cup {[oop_bet |-> a, oop_raise |-> a, ip_bet |-> b, ip_raise |-> b] :
            a \in SizeLists,
            b \in {<<Percent(Finite(33 * Scale)), Percent(Finite(67 * Scale)),
                     AllIn>>,
                   <<Percent(Finite(50 * Scale)), Percent(Finite(Scale))>>}}

Pots == {Big(n) : n \in {0, 1, 20, 100}} \cup {u32_MAX}

Stacks == {Big(n) : n \in {0, 5, 20, 100, 200}} \cup {u32_MAX}

ToCalls == {Big(n) : n \in {0, 1, 10, 11, 100}} \cup {u32_MAX}

CalculateInputs ==
  [self : UNION {{l[i] : i \in 1..Len(l)} : l \in SizeLists},
   pot : Pots, stack : Stacks]

BetAmountsInputs ==
  [self : Configs, oop : BOOLEAN, pot : Pots, stack : Stacks]

\* overflow_checks is the build profile the call runs under
RaiseAmountsInputs ==
  [self : Configs, oop : BOOLEAN, pot : Pots, to_call : ToCalls,
   stack : Stacks, overflow_checks : BOOLEAN]

\* the requests of POST /v1/solve: boards, ranges and bet sizes the parsers
\* accept and reject, absent optional fields
SolveRequests ==
  [player : {"OOP", "IP"},
   board : {<<"A", "h", " ", "K", "d", " ", "Q", "c">>,
            <<"A", "h", "K", "d", "Q", "c">>, <<"A", "h", "K">>,
            <<"X", "x", " ", "K", "d">>},
   effective_stack : {Big(1), Big(100), u32_MAX},
   starting_pot : {Big(1), Big(20)},
   bet_sizes : {None} \cup
               {Some([oop_bet |-> a, oop_raise |-> b,
                      ip_bet |-> a, ip_raise |-> b]) :
                  a \in {<<"3", "3", ",", " ", "6", "7", ",", " ", "a">>},
                  b \in {<<"5", "0", ",", " ", "a">>, <<"5", "0", ",", "x">>,
                         <<>>}},
   oop_range : {None, Some(ExampleRange), Some(<<"A", "K", "x">>)},
   ip_range : {None, Some(<<"2", "2", "+">>), Some(<<"Q", "Q", ":", "2">>)}]

-----------------------------------------------------------------------------
(* The calls.                                                              *)

NoRet == [tag |-> "None"]

Init ==
  /\ pc = "call"
  /\ ret = NoRet
  /\ \/ op = "generate_all_combos" /\ arg = <<>>
     \/ op = "get_mock_combos" /\ arg = <<>>
     \/ op = "Card::from_str" /\ arg \in CardInputs
     \/ op = "parse_board" /\ arg \in BoardInputs
     \/ op = "Range::new" /\ arg = <<>>
     \/ op = "Range::parse" /\ arg \in RangeInputs
     \/ op = "parse_single_bet_size" /\ arg \in SingleBetInputs
     \/ op = "parse_bet_size_string" /\ arg \in BetInputs
     \/ op = "BetSizeConfig::from_bet_sizes" /\ arg \in BetSizesInputs
     \/ op = "Combo::is_blocked_by" /\ arg \in BlockedByInputs
     \/ op = "filter_blocked_combos" /\ arg \in FilterCombosInputs
     \/ op = "Card::new" /\ arg \in RankSuitInputs
     \/ op = "Card::from_value" /\ arg \in 0..(U8 - 1)
     \/ op = "Card::to_string" /\ arg \in Cards
     \/ op = "solve" /\ arg \in SolveRequests
     \/ op = "BetSize::calculate" /\ arg \in CalculateInputs
     \/ op = "BetSizeConfig::get_bet_amounts" /\ arg \in BetAmountsInputs
     \/ op = "BetSizeConfig::get_raise_amounts" /\ arg \in RaiseAmountsInputs

GenerateAllCombos ==
  /\ pc = "call"
  /\ op = "generate_all_combos"
  /\ ret' = generate_all_combos
  /\ pc' = "done"
  /\ UNCHANGED <<op, arg>>

GetMockCombos ==
  /\ pc = "call"
  /\ op = "get_mock_combos"
  /\ ret' = get_mock_combos
  /\ pc' = "done"
  /\ UNCHANGED <<op, arg>>

CardFromStr ==
  /\ pc = "call"
  /\ op = "Card::from_str"
  /\ ret' = Card_from_str(arg)
  /\ pc' = "done"
  /\ UNCHANGED <<op, arg>>

ParseBoard ==
  /\ pc = "call"
  /\ op = "parse_board"
  /\ ret' = parse_board(arg)
  /\ pc' = "done"
  /\ UNCHANGED <<op, arg>>

RangeParse ==
  /\ pc = "call"
  /\ op = "Range::parse"
  /\ ret' = Range_parse(arg)
  /\ pc' = "done"
  /\ UNCHANGED <<op, arg>>

ParseSingleBetSize ==
  /\ pc = "call"
  /\ op = "parse_single_bet_size"
  /\ ret' = parse_single_bet_size(arg)
  /\ pc' = "done"
  /\ UNCHANGED <<op, arg>>

ParseBetSizeString ==
  /\ pc = "call"
  /\ op = "parse_bet_size_string"
  /\ ret' = parse_bet_size_string(arg)
  /\ pc' = "done"
  /\ UNCHANGED <<op, arg>>

FromBetSizes ==
  /\ pc = "call"
  /\ op = "BetSizeConfig::from_bet_sizes"
  /\ ret' = from_bet_sizes(arg)
  /\ pc' = "done"
  /\ UNCHANGED <<op, arg>>

RangeNew ==
  /\ pc = "call"
  /\ op = "Range::new"
  /\ ret' = Range_new
  /\ pc' = "done"
  /\ UNCHANGED <<op, arg>>

\* range.filter_blocked(&board) on the Range a call of Range::new,
\* Range::parse or Range::filter_blocked returned
RangeFilterBlocked ==
  /\ pc = "done"
  /\ \/ op = "Range::parse" /\ arg \in FilterRangeStrs /\ IsOk(ret)
     \/ op \in {"Range::new", "Range::filter_blocked"}
  /\ \E board \in IF op = "Range::filter_blocked" THEN NextBoards ELSE Boards :
       LET self == IF op = "Range::parse" THEN ret.val ELSE ret
       IN  /\ arg' = [self |-> self, board |-> board]
           /\ ret' = Range_filter_blocked(self, board)
  /\ op' = "Range::filter_blocked"
  /\ pc' = "done"

CardNew ==
  /\ pc = "call"
  /\ op = "Card::new"
  /\ ret' = Card_new(arg.rank, arg.suit)
  /\ pc' = "done"
  /\ UNCHANGED <<op, arg>>

CardFromValue ==
  /\ pc = "call"
  /\ op = "Card::from_value"
  /\ ret' = Card_from_value(arg)
  /\ pc' = "done"
  /\ UNCHANGED <<op, arg>>

CardToString ==
  /\ pc = "call"
  /\ op = "Card::to_string"
  /\ ret' = Card_to_string(arg)
  /\ pc' = "done"
  /\ UNCHANGED <<op, arg>>

IsBlockedBy ==
  /\ pc = "call"
  /\ op = "Combo::is_blocked_by"
  /\ ret' = is_blocked_by(arg.combo, arg.cards)
  /\ pc' = "done"
  /\ UNCHANGED <<op, arg>>

FilterBlockedCombos ==
  /\ pc = "call"
  /\ op = "filter_blocked_combos"
  /\ ret' = filter_blocked_combos(arg.combos, arg.board)
  /\ pc' = "done"
  /\ UNCHANGED <<op, arg>>

Solve ==
  /\ pc = "call"
  /\ op = "solve"
  /\ ret' = solve(arg)
  /\ pc' = "done"
  /\ UNCHANGED <<op, arg>>

Calculate ==
  /\ pc = "call"
  /\ op = "BetSize::calculate"
  /\ ret' = BetSize_calculate(arg.self, arg.pot, arg.stack)
  /\ pc' = "done"
  /\ UNCHANGED <<op, arg>>

GetBetAmounts ==
  /\ pc = "call"
  /\ op = "BetSizeConfig::get_bet_amounts"
  /\ ret' = get_bet_amounts(arg.self, arg.oop, arg.pot, arg.stack)
  /\ pc' = "done"
  /\ UNCHANGED <<op, arg>>

GetRaiseAmounts ==
  /\ pc = "call"
  /\ op = "BetSizeConfig::get_raise_amounts"
  /\ ret' = get_raise_amounts(arg.self, arg.oop, arg.pot, arg.to_call,
                              arg.stack, arg.overflow_checks)
  /\ pc' = "done"
  /\ UNCHANGED <<op, arg>>

Next ==
  \/ GenerateAllCombos
  \/ GetMockCombos
  \/ CardFromStr
  \/ ParseBoard
  \/ RangeParse
  \/ ParseSingleBetSize
  \/ ParseBetSizeString
  \/ FromBetSizes
  \/ RangeNew
  \/ RangeFilterBlocked
  \/ CardNew
  \/ CardFromValue
  \/ CardToString
  \/ IsBlockedBy
  \/ FilterBlockedCombos
  \/ Solve
  \/ Calculate
  \/ GetBetAmounts
  \/ GetRaiseAmounts

Spec == Init /\ [][Next]_vars

\* the call has returned
Done(name) == pc = "done" /\ op = name
-----------------------------------------------------------------------------
(* The claims.                                                             *)

\* the two cards a four-char hand string of the mock table names
HandCards(hand) ==
  {Card_from_str(Slice(hand, 0, 2)).val, Card_from_str(Slice(hand, 2, 4)).val}

\* the id generate_all_combos gives the combination of a set of two cards
ComboIdOf(cards) ==
  LET all == generate_all_combos
  IN  all[CHOOSE k \in 1..Len(all) : {all[k].card1, all[k].card2} = cards].id

\* C1: generate_all_combos returns 1326 combinations, no two with the same
\* unordered pair of cards, none pairing a card with itself; the combination
\* at position k has id k, so the ids are exactly 0..1325; combination 0 is
\* two Aces and combination 1325 two Twos.
C1_ComboEnumeration ==
  Done("generate_all_combos") =>
    /\ Len(ret) = 1326
    /\ \A k \in 1..Len(ret) :
         ret[k].card1 # ret[k].card2 /\ ret[k].id = k - 1
    /\ Cardinality({{ret[k].card1, ret[k].card2} : k \in 1..Len(ret)}) = 1326
    /\ {ret[k].id : k \in 1..Len(ret)} = 0..1325
    /\ Card_rank(ret[1].card1) = Ace /\ Card_rank(ret[1].card2) = Ace
    /\ Card_rank(ret[1326].card1) = 0 /\ Card_rank(ret[1326].card2) = 0

C1_Witness ==
  Done("generate_all_combos") /\ Len(ret) = 1326 /\ ret[1326].id = 1325

\* C2: the enumeration order is fixed: deck position p holds the card of
\* value 51 - p, and for every i < j the combination of deck[i] and deck[j]
\* (card1 = deck[i], card2 = deck[j]) has id 51*i - i*(i-1)/2 + (j-i-1);
\* hence card1.value > card2.value for every combination.
C2_EnumerationOrder ==
  Done("generate_all_combos") =>
    /\ \A p \in 0..51 : Card_value(At(deck_cards, p)) = 51 - p
    /\ \A i \in 0..51, j \in 0..51 :
         i < j =>
           LET id == 51 * i - ((i * (i - 1)) \div 2) + (j - i - 1)
           IN  /\ id < Len(ret)
               /\ At(ret, id) = Combo_new(At(deck_cards, i), At(deck_cards, j), id)
    /\ \A k \in 1..Len(ret) :
         Card_value(ret[k].card1) > Card_value(ret[k].card2)

C2_Witness ==
  Done("generate_all_combos") /\ At(ret, 51) = Combo_new(50, 49, 51)

\* C3: every entry of get_mock_combos has as hand_id the id that
\* generate_all_combos gives the combination of the two cards its hand
\* string names.
C3_MockIdsAreComboIds ==
  Done("get_mock_combos") =>
    \A k \in 1..Len(ret) : ret[k].hand_id = ComboIdOf(HandCards(ret[k].hand))
ParseOps ==
  {"Card::from_str", "parse_board", "Range::parse", "parse_bet_size_string",
   "BetSizeConfig::from_bet_sizes"}

\* C4: every parse operation returns a success value or an error value for
\* every input string, strings with multi-byte characters included; none
\* panics.
C4_ParsersNeverPanic ==
  (pc = "done" /\ op \in ParseOps) => ret.tag \in {"Ok", "Err"}

\* the argument of Range::parse is one token that is not blank
OneToken == ~contains(arg, ",") /\ trim(arg) # <<>>

\* C5: Range::parse returns Ok for a token only if the token's pattern
\* yielded at least one combination id.
C5_TokenNeedsCombos ==
  (Done("Range::parse") /\ OneToken /\ IsOk(ret)) => DOMAIN ret.val # {}

\* two rank chars, optionally followed by one s/o modifier
WellFormedHand(h) ==
  /\ Len(h) \in {2, 3}
  /\ IsSome(Rank_from_char(h[1]))
  /\ IsSome(Rank_from_char(h[2]))
  /\ Len(h) = 3 => h[3] \in {"s", "S", "o", "O"}

\* the hand pattern of a token: what precedes its frequency suffix
PatternOf(token) ==
  IF contains(token, ":") THEN Slice(token, 0, Unwrap(find(token, ":")))
  ELSE token

\* the hands a pattern names: the hand before a trailing '+', the hands on
\* either side of '-', or the pattern itself
HandsOf(pattern) ==
  IF ends_with(pattern, "+") THEN <<Slice(pattern, 0, Len(pattern) - 1)>>
  ELSE IF contains(pattern, "-") THEN split(pattern, "-")
  ELSE <<pattern>>

\* C6: Range::parse rejects a token one of whose hands (the single hand, the
\* hand of a plus pattern, the start or the end hand of a range) is not two
\* rank chars optionally followed by one s/o modifier.
C6_MalformedHandRejected ==
  (Done("Range::parse") /\ OneToken /\ IsOk(ret)) =>
    LET hands == HandsOf(PatternOf(trim(arg)))
    IN  \A i \in 1..Len(hands) : WellFormedHand(hands[i])

\* the tokens of a comma-separated string that are not blank, trimmed
NonBlankTokens(s) ==
  LET Kept(token) == token # <<>>
      tokens == split(s, ",")
  IN  SelectSeq([i \in 1..Len(tokens) |-> trim(tokens[i])], Kept)

Half == Finite(Scale \div 2)

One == Finite(Scale)

\* the range is what the tokens yield, each id at the frequency of the last
\* token that yields it; alone[i] is the range the i-th token gives by itself
LastWins(range, alone) ==
  /\ DOMAIN range = UNION {DOMAIN alone[i] : i \in 1..Len(alone)}
  /\ \A id \in DOMAIN range :
       \E i \in 1..Len(alone) :
         /\ id \in DOMAIN alone[i]
         /\ \A k \in (i + 1)..Len(alone) : id \notin DOMAIN alone[k]
         /\ range[id] = alone[i][id]

\* C7: each combination id ends up with the frequency of the last token
\* whose pattern yields it, and the range holds exactly the ids some token
\* yields: "AA,AA:0.5" leaves the six AA combinations at 0.5, "AA:0.5,AA"
\* at 1.0.
C7_LastTokenWins ==
  (Done("Range::parse") /\ IsOk(ret)) =>
    /\ LET tokens == NonBlankTokens(arg)
       IN  LastWins(ret.val,
                    [i \in 1..Len(tokens) |-> Range_parse(tokens[i]).val])
    /\ arg = <<"A", "A", ",", "A", "A", ":", "0", ".", "5">> =>
         \A id \in DOMAIN ret.val : ret.val[id] = Half
    /\ arg = <<"A", "A", ":", "0", ".", "5", ",", "A", "A">> =>
         \A id \in DOMAIN ret.val : ret.val[id] = One

C7_Witness ==
  /\ Done("Range::parse")
  /\ arg = <<"A", "A", ",", "A", "A", ":", "0", ".", "5">>
  /\ IsOk(ret)
  /\ Cardinality(DOMAIN ret.val) = 6
  /\ \A id \in DOMAIN ret.val : ret.val[id] = Half

\* the token has a bad frequency suffix or a bad hand pattern
TokenFails(token) ==
  \/ IsErr(token_frequency(token))
  \/ IsErr(parse_hand_pattern(PatternOf(token)))

\* C8: parsing is all-or-nothing: Range::parse returns an error, and no
\* Range, exactly when one of the tokens fails; parse_bet_size_string returns
\* an error and no list when one of its tokens fails; from_bet_sizes returns
\* an error and no configuration exactly when one of its four strings fails.
C8_AllOrNothing ==
  /\ Done("Range::parse") =>
       LET tokens == NonBlankTokens(arg)
       IN  /\ IsErr(ret) <=> \E i \in 1..Len(tokens) : TokenFails(tokens[i])
           /\ IsErr(ret) => "val" \notin DOMAIN ret
  /\ Done("parse_bet_size_string") =>
       LET tokens == NonBlankTokens(arg)
       IN  /\ (\E i \in 1..Len(tokens) :
                 IsErr(parse_single_bet_size(tokens[i]))) => IsErr(ret)
           /\ IsErr(ret) => "val" \notin DOMAIN ret
  /\ Done("BetSizeConfig::from_bet_sizes") =>
       /\ IsErr(ret) <=>
            \E f \in {arg.oop_bet, arg.oop_raise, arg.ip_bet, arg.ip_raise} :
              IsErr(parse_bet_size_string(f))
       /\ IsErr(ret) => "val" \notin DOMAIN ret

C8_Witness ==
  /\ Done("Range::parse")
  /\ arg = <<"A", "A", ",", "A", "K", "x">>
  /\ ~TokenFails(<<"A", "A">>)
  /\ TokenFails(<<"A", "K", "x">>)
  /\ IsErr(ret)

\* the ids of the combinations of all_combos made of the ranks x and y, in
\* either order, that a suited/offsuit restriction lets through
CombosOfRanks(x, y, suited_filter) ==
  LET all == generate_all_combos
  IN  {all[k].id : k \in
         {k \in 1..Len(all) :
            /\ \/ Card_rank(all[k].card1) = x /\ Card_rank(all[k].card2) = y
               \/ Card_rank(all[k].card1) = y /\ Card_rank(all[k].card2) = x
            /\ suited_filter = Some(TRUE) =>
                 Card_suit(all[k].card1) = Card_suit(all[k].card2)
            /\ suited_filter = Some(FALSE) =>
                 Card_suit(all[k].card1) # Card_suit(all[k].card2)}}

\* the restriction a well-formed hand carries
FilterOf(h) ==
  IF Len(h) = 2 THEN None
  ELSE IF h[3] \in {"s", "S"} THEN Some(TRUE) ELSE Some(FALSE)

\* the hand with its two rank chars swapped
Swapped(h) == <<h[2], h[1]>> \o SubSeq(h, 3, Len(h))

\* the ids of a Result that holds a Range (none for an error)
IdsOf(r) == IF IsOk(r) THEN DOMAIN r.val ELSE {}

\* C9: a single-hand token resolves to exactly the combinations of its two
\* ranks that its modifier lets through: 6 for a pair, 4 for a suited
\* non-pair, 12 for an offsuit non-pair, 16 for a non-pair without modifier;
\* the order of the two rank chars makes no difference.
C9_SingleHand ==
  (Done("Range::parse") /\ WellFormedHand(arg)) =>
    LET x == Unwrap(Rank_from_char(arg[1]))
        y == Unwrap(Rank_from_char(arg[2]))
        expected == CombosOfRanks(x, y, FilterOf(arg))
    IN  /\ IsOk(ret) <=> expected # {}
        /\ IdsOf(ret) = expected
        /\ IdsOf(ret) = IdsOf(Range_parse(Swapped(arg)))
        /\ (x = y /\ Len(arg) = 2) => Cardinality(IdsOf(ret)) = 6
        /\ (x # y /\ FilterOf(arg) = Some(TRUE)) => Cardinality(IdsOf(ret)) = 4
        /\ (x # y /\ FilterOf(arg) = Some(FALSE)) => Cardinality(IdsOf(ret)) = 12
        /\ (x # y /\ Len(arg) = 2) => Cardinality(IdsOf(ret)) = 16

C9_Witness ==
  /\ Done("Range::parse")
  /\ arg = <<"K", "A", "o">>
  /\ IsOk(ret)
  /\ Cardinality(DOMAIN ret.val) = 12
  /\ DOMAIN ret.val = IdsOf(Range_parse(<<"A", "K", "o">>))

\* C10: a pair plus pattern "RR+" is the union of the pairs of every rank
\* from R up to Ace (6 for each rank: "QQ+" 18, "22+" 78); a non-pair plus
\* pattern "XYm+" is the union of the single hands "XZm" for every rank Z
\* from Y up to, not including, X.
C10_PlusNotation ==
  (/\ Done("Range::parse")
   /\ ends_with(arg, "+")
   /\ WellFormedHand(Slice(arg, 0, Len(arg) - 1))) =>
    LET h == Slice(arg, 0, Len(arg) - 1)
        x == Unwrap(Rank_from_char(h[1]))
        y == Unwrap(Rank_from_char(h[2]))
        m == SubSeq(h, 3, Len(h))
    IN  /\ (x = y /\ Len(h) = 2) =>
             /\ IsOk(ret)
             /\ DOMAIN ret.val =
                  UNION {IdsOf(Range_parse(<<Rank_to_char(z), Rank_to_char(z)>>)) :
                           z \in x..Ace}
             /\ Cardinality(DOMAIN ret.val) = 6 * (Ace - x + 1)
        /\ x # y =>
             /\ IsOk(ret)
             /\ DOMAIN ret.val =
                  UNION {IdsOf(Range_parse(<<h[1], Rank_to_char(z)>> \o m)) :
                           z \in y..(x - 1)}
        /\ arg = <<"Q", "Q", "+">> => Cardinality(DOMAIN ret.val) = 18
        /\ arg = <<"2", "2", "+">> => Cardinality(DOMAIN ret.val) = 78

C10_Witness ==
  /\ Done("Range::parse")
  /\ arg = <<"A", "T", "s", "+">>
  /\ IsOk(ret)
  /\ Cardinality(DOMAIN ret.val) = 16
  /\ DOMAIN ret.val =
       UNION {IdsOf(Range_parse(<<"A", z, "s">>)) : z \in {"T", "J", "Q", "K"}}

\* the two rank chars of a hand are the same rank
IsPairHand(h) == Rank_from_char(h[1]) = Rank_from_char(h[2])

SuffixOf(token) == Slice(token, Unwrap(find(token, ":")) + 1, Len(token))

\* the suffix is a number f with 0.0 <= f <= 1.0
IsFrequency(f_str) ==
  /\ IsOk(parse_f64(f_str))
  /\ parse_f64(f_str).val.class = "finite"
  /\ 0 <= parse_f64(f_str).val.v
  /\ parse_f64(f_str).val.v <= Scale

\* C12: a token "<hand>:<f>" whose hand is accepted on its own is accepted
\* exactly when f is a number with 0.0 <= f <= 1.0, both bounds included;
\* every combination of an accepted token is stored with exactly f, and with
\* 1.0 when the token has no suffix: "QQ:0.5" has 6 entries at 0.5, "AA" 6
\* entries at 1.0.
C12_FrequencySuffix ==
  (Done("Range::parse") /\ OneToken) =>
    LET token == trim(arg)
    IN  /\ (contains(token, ":") /\ IsOk(Range_parse(PatternOf(token)))) =>
             /\ IsOk(ret) <=> IsFrequency(SuffixOf(token))
             /\ IsOk(ret) =>
                  /\ DOMAIN ret.val = IdsOf(Range_parse(PatternOf(token)))
                  /\ \A id \in DOMAIN ret.val :
                       ret.val[id] = parse_f64(SuffixOf(token)).val
        /\ (contains(token, ":") /\ ~IsFrequency(SuffixOf(token))) => IsErr(ret)
        /\ (~contains(token, ":") /\ IsOk(ret)) =>
             \A id \in DOMAIN ret.val : ret.val[id] = One
        /\ token \in {<<"Q", "Q", ":", "0">>, <<"Q", "Q", ":", "1">>,
                      <<"Q", "Q", ":", "1", ".", "0">>} => IsOk(ret)
        /\ token = <<"Q", "Q", ":", "0", ".", "5">> =>
             /\ IsOk(ret)
             /\ Cardinality(DOMAIN ret.val) = 6
             /\ \A id \in DOMAIN ret.val : ret.val[id] = Half
        /\ token = <<"A", "A">> =>
             /\ IsOk(ret)
             /\ Cardinality(DOMAIN ret.val) = 6
             /\ \A id \in DOMAIN ret.val : ret.val[id] = One

C12_Witness ==
  /\ Done("Range::parse")
  /\ arg = <<"Q", "Q", ":", "0", ".", "5">>
  /\ IsOk(ret)
  /\ Cardinality(DOMAIN ret.val) = 6
  /\ \A id \in DOMAIN ret.val : ret.val[id] = Half

\* the card a two-char string names
CardOf(s) == Card_from_str(s).val

\* the ids of a range whose combination in the enumeration of
\* generate_all_combos has neither card in the board
Unblocked(range, board) ==
  LET all == generate_all_combos
      InBoard(c) == \E i \in 1..Len(board) : board[i] = c
  IN  {id \in DOMAIN range :
         \E k \in 1..Len(all) :
           /\ all[k].id = id
           /\ ~InBoard(all[k].card1)
           /\ ~InBoard(all[k].card2)}

\* C13: Range::filter_blocked(board) returns a Range whose entries are
\* exactly the entries of the original whose combination has neither card in
\* the board, each with its original frequency; the original Range is left as
\* it was and no entry is added.
C13_RangeFilterBlocked ==
  [][(op = "Range::parse" /\ op' = "Range::filter_blocked") =>
       /\ arg'.self = ret.val
       /\ DOMAIN ret' = Unblocked(ret.val, arg'.board)
       /\ DOMAIN ret' \subseteq DOMAIN ret.val
       /\ \A id \in DOMAIN ret' : ret'[id] = ret.val[id]]_vars

C13_Witness ==
  /\ Done("Range::filter_blocked")
  /\ arg.self = Range_parse(<<"A", "A">>).val
  /\ arg.board = <<CardOf(<<"A", "h">>)>>
  /\ Cardinality(DOMAIN arg.self) = 6
  /\ Cardinality(DOMAIN ret) = 3
  /\ \A id \in DOMAIN ret : ret[id] = One

\* the call filters the example range against the board Ah Kd Qc
ExampleCall ==
  /\ Done("Range::filter_blocked")
  /\ arg.board = parse_board(<<"A", "h", " ", "K", "d", " ", "Q", "c">>).val
  /\ arg.self = Range_parse(ExampleRange).val

\* the two cards of the combination with the given id
CardsOfId(id) ==
  LET combo == At(generate_all_combos, id) IN {combo.card1, combo.card2}

\* the card pairs of the mock table
MockPairs ==
  {HandCards(get_mock_combos[k].hand) : k \in 1..Len(get_mock_combos)}

\* C14: the example range "AA,AKs,AKo,KK,QQ:0.5,JJ-99,AQs-ATs,KQs" filtered
\* against the board Ah Kd Qc leaves exactly 46 combinations, and their card
\* pairs are exactly the card pairs of the mock table.
C14_ExampleMatchesMock ==
  ExampleCall =>
    /\ Cardinality(DOMAIN ret) = 46
    /\ {CardsOfId(id) : id \in DOMAIN ret} = MockPairs
    /\ Cardinality(MockPairs) = 46
    /\ \A k \in 1..Len(get_mock_combos) :
         LET pair == HandCards(get_mock_combos[k].hand)
         IN  /\ \E id \in DOMAIN arg.self : CardsOfId(id) = pair
             /\ \A i \in 1..Len(arg.board) : arg.board[i] \notin pair

C14_Witness ==
  /\ ExampleCall
  /\ Cardinality(DOMAIN arg.self) = 68
  /\ Cardinality(DOMAIN ret) = 46
  /\ Len(get_mock_combos) = 46

\* the hand groups of the example: AA, KK, QQ, JJ, TT, 99, AKs, AKo, AQs, KQs
\* and the two suited groups AJs, ATs, as (rank, rank, restriction)
Suited == Some(TRUE)

Offsuit == Some(FALSE)

AJs == CombosOfRanks(12, 9, Suited)

ATs == CombosOfRanks(12, 8, Suited)

\* how many of the ids are combinations of the group
InGroup(ids, x, y, suited_filter) ==
  Cardinality(ids \cap CombosOfRanks(x, y, suited_filter))

\* the survivors of the groups both statements agree on
ListedGroups(ids) ==
  /\ InGroup(ids, 12, 12, None) = 3
  /\ InGroup(ids, 12, 11, Suited) = 2
  /\ InGroup(ids, 12, 11, Offsuit) = 7
  /\ InGroup(ids, 11, 11, None) = 3
  /\ InGroup(ids, 10, 10, None) = 3
  /\ InGroup(ids, 12, 10, Suited) = 2
  /\ InGroup(ids, 9, 9, None) = 6
  /\ InGroup(ids, 8, 8, None) = 6
  /\ InGroup(ids, 7, 7, None) = 6
  /\ InGroup(ids, 11, 10, Suited) = 2

\* the ids of the listed groups
ListedIds ==
  CombosOfRanks(12, 12, None) \cup CombosOfRanks(12, 11, None)
    \cup CombosOfRanks(11, 11, None) \cup CombosOfRanks(10, 10, None)
    \cup CombosOfRanks(12, 10, Suited) \cup CombosOfRanks(9, 9, None)
    \cup CombosOfRanks(8, 8, None) \cup CombosOfRanks(7, 7, None)
    \cup CombosOfRanks(11, 10, Suited)

\* C15 as stated: in the example the AJs and ATs groups are not in the range
\* and absent from the result, and the 46 survivors are AA 3, AKs 2, AKo 7,
\* KK 3, QQ 3, AQs 2, JJ 6, TT 6, 99 6 and KQs 2.
C15_AJsATsAbsent ==
  ExampleCall =>
    /\ DOMAIN arg.self \cap (AJs \cup ATs) = {}
    /\ DOMAIN ret \cap (AJs \cup ATs) = {}
    /\ Cardinality(DOMAIN ret) = 46
    /\ ListedGroups(DOMAIN ret)
    /\ DOMAIN ret \subseteq ListedIds

\* C15 (amended): in the example the AJs and ATs groups are in the range
\* ("AQs-ATs" sweeps AQs, AJs, ATs) and three combinations of each survive
\* the board; the 46 survivors are AA 3, AKs 2, AKo 7, KK 3, QQ 3, AQs 2,
\* AJs 3, ATs 3, JJ 6, TT 6, 99 6 and KQs 2.
C15_AJsATsPresent ==
  ExampleCall =>
    /\ AJs \subseteq DOMAIN arg.self
    /\ ATs \subseteq DOMAIN arg.self
    /\ InGroup(DOMAIN ret, 12, 9, Suited) = 3
    /\ InGroup(DOMAIN ret, 12, 8, Suited) = 3
    /\ Cardinality(DOMAIN ret) = 46
    /\ ListedGroups(DOMAIN ret)
    /\ DOMAIN ret = (DOMAIN ret \cap ListedIds)
                      \cup (DOMAIN ret \cap (AJs \cup ATs))

C15_Witness ==
  /\ ExampleCall
  /\ Cardinality(AJs) = 4
  /\ Cardinality(DOMAIN ret \cap AJs) = 3
  /\ Cardinality(DOMAIN ret \cap ATs) = 3
  /\ CardsOfId(CHOOSE id \in AJs : id \notin DOMAIN ret)
       = {CardOf(<<"A", "h">>), CardOf(<<"J", "h">>)}

\* char::to_ascii_uppercase
to_ascii_uppercase(c) ==
  IF \E i \in 1..Len(LowerChars) : LowerChars[i] = c
  THEN UpperChars[CHOOSE i \in 1..Len(LowerChars) : LowerChars[i] = c]
  ELSE c

\* the four ways of casing a two-char string
Casings(s) ==
  {<<f[s[1]], g[s[2]]>> :
     f \in {[c \in {s[1]} |-> to_ascii_lowercase(c)],
            [c \in {s[1]} |-> to_ascii_uppercase(c)]},
     g \in {[c \in {s[2]} |-> to_ascii_lowercase(c)],
            [c \in {s[2]} |-> to_ascii_uppercase(c)]}}

\* C16: for each of the 52 cards c, parsing to_string(c) yields c again;
\* to_string emits exactly two chars, the rank in upper case (2-9, T, J, Q, K,
\* A) followed by the suit in lower case (c, d, h, s); parsing ignores case,
\* so "ah", "AH", "aH" and "Ah" all parse to the same card.
C16_CardRoundTrip ==
  /\ Done("Card::to_string") =>
       /\ Card_from_str(ret) = Ok(arg)
       /\ Len(ret) = 2
       /\ ret[1] \in {"2", "3", "4", "5", "6", "7", "8", "9",
                      "T", "J", "Q", "K", "A"}
       /\ ret[2] \in {"c", "d", "h", "s"}
       /\ \A s \in Casings(ret) : Card_from_str(s) = Ok(arg)
  /\ (/\ Done("Card::from_str")
      /\ arg \in {<<"a", "h">>, <<"A", "H">>, <<"a", "H">>, <<"A", "h">>}) =>
       ret = Ok(Card_new(Ace, 2))

C16_Witness ==
  /\ Done("Card::to_string")
  /\ arg = Card_new(Ace, 2)
  /\ ret = <<"A", "h">>
  /\ Card_from_str(<<"a", "H">>) = Ok(arg)

\* the chars that name a rank and the chars that name a suit
RankCharsAnyCase ==
  {"2", "3", "4", "5", "6", "7", "8", "9", "T", "t", "J", "j", "Q", "q",
   "K", "k", "A", "a"}

SuitCharsAnyCase == {"c", "C", "d", "D", "h", "H", "s", "S"}

\* C17: Card parsing succeeds exactly for the strings of two chars whose
\* first char names a rank and whose second names a suit; a string of any
\* other length (0, 1, 3 or more chars) and a two-char string with another
\* rank or suit char yields an error value and no Card.
C17_CardParsing ==
  Done("Card::from_str") =>
    /\ IsOk(ret) <=> /\ Len(arg) = 2
                     /\ arg[1] \in RankCharsAnyCase
                     /\ arg[2] \in SuitCharsAnyCase
    /\ ~IsOk(ret) => IsErr(ret) /\ "val" \notin DOMAIN ret
    /\ IsOk(ret) => ret.val \in 0..(NumCards - 1)

C17_Witness ==
  /\ Done("Card::from_str")
  /\ arg = <<"A", "h", "h">>
  /\ IsErr(ret)
  /\ IsOk(Card_from_str(<<"A", "h">>))
  /\ IsErr(Card_from_str(<<"A">>))
  /\ IsErr(Card_from_str(<<"A", "x">>))

\* C18: a Card has the integer value rank_index * 4 + suit_index, with
\* 0 <= value < 52; rank() and suit() recover the rank and suit it was built
\* from (value div 4 in 0..12, value mod 4 in 0..3); two cards are equal iff
\* they were built from the same rank and suit; from_value(v) yields a card
\* iff v < 52, so no Card that is built decodes to a rank or suit out of range.
C18_CardIdentity ==
  /\ Done("Card::new") =>
       /\ Card_value(ret) = arg.rank * 4 + arg.suit
       /\ 0 <= Card_value(ret) /\ Card_value(ret) < 52
       /\ Card_rank(ret) = arg.rank /\ Card_rank(ret) = Card_value(ret) \div 4
       /\ Card_suit(ret) = arg.suit /\ Card_suit(ret) = Card_value(ret) % 4
       /\ \A other \in RankSuitInputs :
            (Card_new(other.rank, other.suit) = ret) <=> (other = arg)
       /\ Card_from_value(Card_value(ret)) = Some(ret)
  /\ Done("Card::from_value") =>
       /\ IsSome(ret) <=> arg < 52
       /\ IsSome(ret) =>
            /\ Card_value(Unwrap(ret)) = arg
            /\ Card_rank(Unwrap(ret)) \in 0..12
            /\ Card_suit(Unwrap(ret)) \in 0..3
            /\ Card_new(Card_rank(Unwrap(ret)), Card_suit(Unwrap(ret)))
                 = Unwrap(ret)
  /\ (Done("Card::from_str") /\ IsOk(ret)) =>
       Card_rank(ret.val) \in 0..12 /\ Card_suit(ret.val) \in 0..3
  /\ (Done("parse_board") /\ IsOk(ret)) =>
       \A i \in 1..Len(ret.val) : Card_rank(ret.val[i]) \in 0..12
  /\ Done("generate_all_combos") =>
       \A k \in 1..Len(ret) :
         Card_rank(ret[k].card1) \in 0..12 /\ Card_rank(ret[k].card2) \in 0..12

C18_Witness ==
  /\ Done("Card::from_value")
  /\ arg = 52
  /\ ret = None
  /\ Card_from_value(51) = Some(Card_new(Ace, 3))

\* the set of the cards of a list
CardSet(cards) == {cards[i] : i \in 1..Len(cards)}

\* one of the two cards of the combo is among the cards
Holds(combo, cards) == combo.card1 \in cards \/ combo.card2 \in cards

AllCards(strs) == \A i \in 1..Len(strs) : IsOk(Card_from_str(strs[i]))

\* the cards the strings name, in order
CardsOf(strs) == [i \in 1..Len(strs) |-> CardOf(strs[i])]

\* a string of an even number of chars, two chars at a time
Chunks(s) == [k \in 1..(Len(s) \div 2) |-> SubSeq(s, 2 * k - 1, 2 * k)]

\* what the claim says parse_board returns for the pieces of its input
BoardOf(strs, r) ==
  IF AllCards(strs) THEN r = Ok(CardsOf(strs)) ELSE IsErr(r)

\* C20: parse_board reads the whitespace-separated form when the trimmed
\* input contains a space, each token a card, and otherwise the concatenated
\* form, two chars at a time; it fails if the concatenated input has odd
\* length or a token or chunk is not a card, and otherwise returns the cards
\* in input order, duplicates included: "Ah Kd Qc" and "AhKdQc" both give
\* [Ah, Kd, Qc].
C20_ParseBoard ==
  Done("parse_board") =>
    LET s == trim(arg)
    IN  /\ contains(s, " ") => BoardOf(split_whitespace(s), ret)
        /\ (~contains(s, " ") /\ Len(s) % 2 # 0) => IsErr(ret)
        /\ (~contains(s, " ") /\ Len(s) % 2 = 0) => BoardOf(Chunks(s), ret)
        /\ arg \in {<<"A", "h", " ", "K", "d", " ", "Q", "c">>,
                    <<"A", "h", "K", "d", "Q", "c">>} =>
             ret = Ok(<<Card_new(Ace, 2), Card_new(11, 1), Card_new(10, 0)>>)
        /\ arg = <<"A", "h", "A", "h">> =>
             ret = Ok(<<Card_new(Ace, 2), Card_new(Ace, 2)>>)

\* C21: Range::parse of the empty string returns an empty range (len 0,
\* is_empty true), not an error; blank tokens left by stray commas or
\* whitespace have no effect, so a string gives the result of the string of
\* its non-blank tokens, and "AA,,KK, " gives the range of "AA,KK".
C21_EmptyAndBlankTokens ==
  Done("Range::parse") =>
    /\ arg = <<>> =>
         IsOk(ret) /\ Range_len(ret.val) = 0 /\ Range_is_empty(ret.val)
    /\ ret = Range_parse(Join(NonBlankTokens(arg), <<",">>))
    /\ arg = <<"A", "A", ",", ",", "K", "K", ",", " ">> =>
         ret = Range_parse(<<"A", "A", ",", "K", "K">>)

C21_Witness ==
  /\ Done("Range::parse")
  /\ arg = <<"A", "A", ",", ",", "K", "K", ",", " ">>
  /\ IsOk(ret)
  /\ Range_len(ret.val) = 12
  /\ ~Range_is_empty(ret.val)

\* pct is a number
IsNumber(pct) == pct.class = "finite"

\* every percentage of the list is a number
AllNumbers(sizes) ==
  \A i \in 1..Len(sizes) : sizes[i][1] = "Percent" => IsNumber(sizes[i][2])

\* twice x * pct / 100 plus one half, in units of 1 / (200 * Scale)
TwiceShifted(x, pct) ==
  BigAdd(BigMul(x, Big(2 * pct.v)), Big(100 * Scale))

\* n is x * pct / 100 rounded half away from zero, for pct >= 0:
\* n <= x * pct / 100 + 1/2 < n + 1
IsRounded(x, pct, n) ==
  /\ BigLe(BigMul(n, Big(200 * Scale)), TwiceShifted(x, pct))
  /\ BigLt(TwiceShifted(x, pct), BigMul(BigAdd(n, Big(1)), Big(200 * Scale)))

\* x * pct / 100 rounded half away from zero is at least n, for pct >= 0
RoundedAtLeast(x, pct, n) ==
  BigLe(BigMul(n, Big(200 * Scale)), TwiceShifted(x, pct))

\* a is the bet of the rule: min(round(pot * pct / 100), stack), or stack
IsBetOf(size, pot, stack, a) ==
  IF size = AllIn THEN a = stack
  ELSE IF size[2].v < 0 THEN FALSE
  ELSE \/ BigLt(a, stack) /\ IsRounded(pot, size[2], a)
       \/ a = stack /\ RoundedAtLeast(pot, size[2], stack)

\* the bet of the rule is 0 or less
NoBetOf(size, pot, stack) ==
  IF size = AllIn THEN stack = <<>>
  ELSE size[2].v < 0 \/ stack = <<>> \/ IsRounded(pot, size[2], <<>>)

RECURSIVE BetsOf(_, _, _, _)
\* amounts are the bets of the rules in rule order, without those that are 0
BetsOf(sizes, pot, stack, amounts) ==
  IF sizes = <<>> THEN amounts = <<>>
  ELSE \/ /\ amounts # <<>>
          /\ Head(amounts) # <<>>
          /\ IsBetOf(Head(sizes), pot, stack, Head(amounts))
          /\ BetsOf(Tail(sizes), pot, stack, Tail(amounts))
       \/ /\ NoBetOf(Head(sizes), pot, stack)
          /\ BetsOf(Tail(sizes), pot, stack, amounts)

\* C22: get_bet_amounts takes the out-of-position bet list when the flag is
\* true and the in-position bet list otherwise and returns, in rule order
\* and with repeats, the amounts min(round half away from zero of
\* pot * pct / 100, stack) of the Percent rules and stack of the AllIn rules
\* that are above 0; every amount is at most the stack, so a rule goes
\* missing only when its amount is 0; BetSize::calculate gives the amount of
\* one rule; the default configuration with pot 20 and stack 100 gives
\* [7, 13, 100].
C22_GetBetAmounts ==
  /\ (Done("BetSize::calculate") /\ AllNumbers(<<arg.self>>)) =>
       IF NoBetOf(arg.self, arg.pot, arg.stack) THEN ret = <<>>
       ELSE IsBetOf(arg.self, arg.pot, arg.stack, ret)
  /\ Done("BetSizeConfig::get_bet_amounts") =>
       LET sizes == IF arg.oop THEN arg.self.oop_bet ELSE arg.self.ip_bet
       IN  /\ AllNumbers(sizes) => BetsOf(sizes, arg.pot, arg.stack, ret)
           /\ \A i \in 1..Len(ret) :
                BigLt(<<>>, ret[i]) /\ BigLe(ret[i], arg.stack)
           /\ (arg.self = BetSizeConfig_default /\ arg.pot = Big(20)
                 /\ arg.stack = Big(100)) =>
                ret = <<Big(7), Big(13), Big(100)>>

C22_Witness ==
  /\ Done("BetSizeConfig::get_bet_amounts")
  /\ arg.self = BetSizeConfig_default
  /\ arg.oop
  /\ arg.pot = Big(20)
  /\ arg.stack = Big(100)
  /\ ret = <<Big(7), Big(13), Big(100)>>

\* a rule above the stack is capped, a repeated rule is kept twice, a rule
\* that rounds to 0 goes missing
C22_WitnessCapped ==
  /\ Done("BetSizeConfig::get_bet_amounts")
  /\ arg.oop
  /\ arg.self.oop_bet =
       <<AllIn, Percent(Finite(1000 * Scale)), Percent(Finite(100 * Scale))>>
  /\ arg.pot = Big(20)
  /\ arg.stack = Big(100)
  /\ ret = <<Big(100), Big(100), Big(20)>>

\* twice to_call + x * pct / 100 plus one half, in units of 1 / (200 * Scale)
RaiseShifted(x, pct, to_call) ==
  BigAdd(TwiceShifted(x, pct), BigMul(to_call, Big(200 * Scale)))

\* a is the raise of the rule: to_call + round((pot + to_call) * pct / 100)
\* in unbounded arithmetic, or stack
IsRaiseOf(size, pot, to_call, stack, a) ==
  IF size = AllIn THEN a = stack
  ELSE /\ size[2].v >= 0
       /\ BigLe(BigMul(a, Big(200 * Scale)),
                RaiseShifted(BigAdd(pot, to_call), size[2], to_call))
       /\ BigLt(RaiseShifted(BigAdd(pot, to_call), size[2], to_call),
                BigMul(BigAdd(a, Big(1)), Big(200 * Scale)))

\* the raise of the rule is not above to_call or is above stack
NoRaiseOf(size, pot, to_call, stack) ==
  IF size = AllIn THEN ~BigLt(to_call, stack)
  ELSE \/ size[2].v < 0
       \/ IsRaiseOf(size, pot, to_call, stack, to_call)
       \/ BigLe(BigMul(BigAdd(stack, Big(1)), Big(200 * Scale)),
                RaiseShifted(BigAdd(pot, to_call), size[2], to_call))

RECURSIVE RaisesOf(_, _, _, _, _)
\* amounts are the raises of the rules in rule order that are above to_call
\* and not above stack
RaisesOf(sizes, pot, to_call, stack, amounts) ==
  IF sizes = <<>> THEN amounts = <<>>
  ELSE \/ /\ amounts # <<>>
          /\ BigLt(to_call, Head(amounts))
          /\ BigLe(Head(amounts), stack)
          /\ IsRaiseOf(Head(sizes), pot, to_call, stack, Head(amounts))
          /\ RaisesOf(Tail(sizes), pot, to_call, stack, Tail(amounts))
       \/ /\ NoRaiseOf(Head(sizes), pot, to_call, stack)
          /\ RaisesOf(Tail(sizes), pot, to_call, stack, amounts)

\* C23: get_raise_amounts takes the raise list of the position and returns,
\* in rule order, the amounts to_call + round((pot + to_call) * pct / 100) of
\* the Percent rules and stack of the AllIn rules that are above to_call and
\* not above stack; a percentage raise above the stack is dropped, not
\* capped; the result is empty when stack <= to_call; the default
\* configuration with pot 20, to_call 10 and stack 100 gives [25, 100].
C23_GetRaiseAmounts ==
  Done("BetSizeConfig::get_raise_amounts") =>
    LET sizes == IF arg.oop THEN arg.self.oop_raise ELSE arg.self.ip_raise
    IN  /\ ret # Panic
        /\ AllNumbers(sizes) =>
             RaisesOf(sizes, arg.pot, arg.to_call, arg.stack, ret.val)
        /\ BigLe(arg.stack, arg.to_call) => ret.val = << >>
        /\ (arg.self = BetSizeConfig_default /\ arg.pot = Big(20)
              /\ arg.to_call = Big(10) /\ arg.stack = Big(100)) =>
             ret.val = <<Big(25), Big(100)>>

\* x is a number above 0 (a finite one, or the positive infinity)
GtZero(x) == (x.class = "finite" /\ x.v > 0) \/ (x.class = "inf" /\ x.v > 0)

\* every Percent of the list holds a number above 0
AllPositive(sizes) ==
  \A i \in 1..Len(sizes) : sizes[i] # AllIn => GtZero(sizes[i][2])

\* C24: parse_single_bet_size returns AllIn for "a" and "allin" in any
\* letter case, Percent(v) for a token that is a number v above 0 and for
\* no other token: text, 0, negative numbers and spellings of values that
\* are not positive numbers, such as NaN, fail; so every Percent of a parsed
\* list or BetSizeConfig holds a value above 0.
C24_ParseSingleBetSize ==
  /\ Done("parse_single_bet_size") =>
       LET s     == trim(arg)
           lower == [i \in 1..Len(s) |-> to_ascii_lowercase(s[i])]
           value == parse_f64(s)
       IN  IF lower \in {<<"a">>, <<"a", "l", "l", "i", "n">>}
           THEN ret = Ok(AllIn)
           ELSE IF IsOk(value) /\ GtZero(value.val)
           THEN ret = Ok(Percent(value.val))
           ELSE IsErr(ret)
  /\ (Done("parse_bet_size_string") /\ IsOk(ret)) => AllPositive(ret.val)
  /\ (Done("BetSizeConfig::from_bet_sizes") /\ IsOk(ret)) =>
       /\ AllPositive(ret.val.oop_bet)
       /\ AllPositive(ret.val.oop_raise)
       /\ AllPositive(ret.val.ip_bet)
       /\ AllPositive(ret.val.ip_raise)

\* C25: parse_bet_size_string splits on commas, trims each token, skips the
\* empty ones and returns the parsed sizes in the order written: "33, 67, a"
\* gives [Percent(33), Percent(67), AllIn]; it fails when no token remains,
\* so the empty string and strings of only commas and whitespace are
\* errors, where Range::parse accepts the empty string.
C25_ParseBetSizeString ==
  /\ Done("parse_bet_size_string") =>
       LET tokens == NonBlankTokens(arg)
       IN  /\ tokens = <<>> => IsErr(ret)
           /\ IsOk(ret) =>
                /\ Len(ret.val) = Len(tokens)
                /\ \A i \in 1..Len(tokens) :
                     parse_single_bet_size(tokens[i]) = Ok(ret.val[i])
           /\ (tokens # <<>> /\ \A i \in 1..Len(tokens) :
                                  IsOk(parse_single_bet_size(tokens[i]))) =>
                IsOk(ret)
           /\ arg = <<"3", "3", ",", " ", "6", "7", ",", " ", "a">> =>
                ret = Ok(<<Percent(Finite(33 * Scale)),
                          Percent(Finite(67 * Scale)), AllIn>>)
  /\ (Done("Range::parse") /\ arg = <<>>) => IsOk(ret)

C25_Witness ==
  /\ Done("parse_bet_size_string")
  /\ arg = <<"6", "7", ",", ",", "6", "7", ",", "a", ",", "3", "3">>
  /\ ret = Ok(<<Percent(Finite(67 * Scale)), Percent(Finite(67 * Scale)),
                AllIn, Percent(Finite(33 * Scale))>>)

\* a string of only commas and whitespace fails
C25_WitnessBlank ==
  /\ Done("parse_bet_size_string")
  /\ arg = <<" ", ",", " ", ",", "\t">>
  /\ ret = Err("Bet size string cannot be empty", arg)

\* a string field of the request is rejected by the parser of the core
RejectedByCore(req) ==
  \/ IsErr(parse_board(req.board))
  \/ IsSome(req.oop_range) /\ IsErr(Range_parse(Unwrap(req.oop_range)))
  \/ IsSome(req.ip_range) /\ IsErr(Range_parse(Unwrap(req.ip_range)))
  \/ IsSome(req.bet_sizes) /\ IsErr(from_bet_sizes(Unwrap(req.bet_sizes)))

\* C26: a POST /v1/solve request whose board, range or bet-size string is
\* rejected by parse_board, Range::parse or parse_bet_size_string is
\* answered with the validation error 422, never with 200 and never with 500.
C26_ParseFailureIs422 ==
  (Done("solve") /\ RejectedByCore(arg)) =>
    ret.status = status_code(<<"ValidationError", "">>)

RECURSIVE SumOf(_)
\* the sum of a sequence of numbers
SumOf(xs) == IF xs = <<>> THEN 0 ELSE Head(xs) + SumOf(Tail(xs))

\* C27: every response of the solve endpoint is consistent: num_combos is
\* the number of entries of combos, 46; player, board, starting_pot (as pot)
\* and effective_stack are those of the request; every combo's strategy has
\* one probability per entry of actions, 4, and its probabilities sum to 1.0
\* (1000 in the table's units of 1/1000).
C27_SolveResponse ==
  Done("solve") =>
    /\ ret.body.num_combos = Len(ret.body.combos)
    /\ ret.body.num_combos = 46
    /\ ret.body.player = arg.player
    /\ ret.body.board = arg.board
    /\ ret.body.pot = arg.starting_pot
    /\ ret.body.effective_stack = arg.effective_stack
    /\ Len(ret.body.actions) = 4
    /\ \A k \in 1..Len(ret.body.combos) :
         /\ Len(ret.body.combos[k].strategy) = Len(ret.body.actions)
         /\ SumOf(ret.body.combos[k].strategy) = 1000

C27_Witness ==
  /\ Done("solve")
  /\ arg.player = "IP"
  /\ arg.board = <<"A", "h", " ", "K", "d", " ", "Q", "c">>
  /\ arg.starting_pot = Big(20)
  /\ arg.effective_stack = Big(100)
  /\ ret.status = OK
  /\ ret.body.pot = Big(20)
  /\ ret.body.num_combos = 46
  /\ ret.body.combos[1].hand = <<"A", "c", "A", "d">>

\* every key is a combination id and every frequency lies in [0.0, 1.0]
WellFormed(range) ==
  \A combo_id \in DOMAIN range :
    /\ combo_id \in 0..1325
    /\ combo_id < Len(generate_all_combos)
    /\ range[combo_id].class = "finite"
    /\ 0 <= range[combo_id].v
    /\ range[combo_id].v <= Scale

\* C28: after any sequence of Range::new, Range::parse and filter_blocked
\* calls every key of the Range is a combination id in 0..1325 and every
\* frequency lies in [0.0, 1.0]; so the Range filter_blocked is called on
\* holds no id past the end of the 1326 combinations it indexes.
C28_RangeWellFormed ==
  /\ Done("Range::new") => WellFormed(ret)
  /\ (Done("Range::parse") /\ IsOk(ret)) => WellFormed(ret.val)
  /\ Done("Range::filter_blocked") => WellFormed(arg.self) /\ WellFormed(ret)

\* the example range filtered against Ah, then against Kd Qc
C28_Witness ==
  /\ Done("Range::filter_blocked")
  /\ arg.board = <<CardOf(<<"K", "d">>), CardOf(<<"Q", "c">>)>>
  /\ arg.self = Range_filter_blocked(Range_parse(ExampleRange).val,
                                      <<CardOf(<<"A", "h">>)>>)
  /\ Range_len(arg.self) = 58
  /\ Range_len(ret) = 46
  /\ \E combo_id \in DOMAIN ret : ret[combo_id] = Half

\* the range without the combinations that hold one of the cards
Without(range, cards) ==
  [combo_id \in {id \in DOMAIN range :
                   ~Holds(generate_all_combos[id + 1], CardSet(cards))} |->
     range[combo_id]]

\* C29: board filtering of a Range composes like set removal: filter_blocked
\* with the empty board returns a range equal to the one it is called on;
\* filtering the result again with the same board changes nothing; and
\* filter_blocked(b2) of filter_blocked(b1) of r is filter_blocked of r with
\* the concatenation of b1 and b2, in either order.
C29_FilterComposition ==
  [][(op' = "Range::filter_blocked") =>
       /\ arg'.board = <<>> => ret' = arg'.self
       /\ (op = "Range::filter_blocked") =>
            /\ arg'.self = ret
            /\ arg'.board = arg.board => ret' = ret
            /\ ret' = Without(arg.self, arg.board \o arg'.board)
            /\ ret' = Without(arg.self, arg'.board \o arg.board)]_vars

\* the example range filtered against Kd Qc, then against Ah Kd
C29_Witness ==
  /\ Done("Range::filter_blocked")
  /\ arg.board = <<CardOf(<<"A", "h">>), CardOf(<<"K", "d">>)>>
  /\ arg.self = Range_filter_blocked(Range_parse(ExampleRange).val,
                   <<CardOf(<<"K", "d">>), CardOf(<<"Q", "c">>)>>)
  /\ Range_len(arg.self) > Range_len(ret)
  /\ Range_len(ret) = 46

\* C30: the u32 arithmetic of get_raise_amounts never overflows: for all
\* u32 values of pot, to_call and stack and every raise rule, pot + to_call
\* and to_call + round((pot + to_call) * pct / 100) stay below 2^32, so no
\* call panics and no call returns an amount reduced modulo 2^32.
C30_NoOverflow ==
  Done("BetSizeConfig::get_raise_amounts") =>
    LET sizes == IF arg.oop THEN arg.self.oop_raise ELSE arg.self.ip_raise
        pot_after_call == BigAdd(arg.pot, arg.to_call)
    IN  /\ ret.tag = "Return"
        /\ ~overflows(pot_after_call)
        /\ \A i \in 1..Len(sizes) :
             ~overflows(raise_of(sizes[i], wrapping(pot_after_call),
                                 arg.to_call, arg.stack))

=============================================================================
